---------------------------- MODULE Spec2Model ----------------------------
(***************************************************************************)
(* Question-uniqueness and difficulty-scoring engine of the AI Lab         *)
(* Generator: the UniquenessValidator and DifficultyAnalyzer services and  *)
(* the Gemini oracle wrappers they call.                                   *)
(*                                                                         *)
(* Texts are sequences of one-character strings.  JavaScript numbers are   *)
(* exact fractions [n, d] in lowest terms; 0/0 is NaN and -1/0 is          *)
(* -Infinity, so a division by zero yields what the JavaScript division    *)
(* yields.  Binary floating-point rounding error is not modelled.          *)
(***************************************************************************)
EXTENDS Integers, Sequences, FiniteSets, TLC

(***************************************************************************)
(* JavaScript numbers.                                                     *)
(***************************************************************************)
Abs(x) == IF x < 0 THEN -x ELSE x

RECURSIVE GCD(_, _)
GCD(a, b) == IF b = 0 THEN a ELSE GCD(b, a % b)

NaN == [n |-> 0, d |-> 0]

NegInfinity == [n |-> -1, d |-> 0]

IsNaN(x) == x = NaN

\* In the operators below, `a \in {x}` binds the value of the argument x once:
\* TLC would otherwise evaluate an argument expression again at each use.

\* The number n / d as JavaScript's division of two integers gives it: NaN
\* for 0 / 0, an infinity for n / 0, otherwise the fraction in lowest terms.
Num(n, d) ==
    CHOOSE r \in
        {IF q = 0
         THEN (IF p = 0 THEN NaN ELSE [n |-> (IF p < 0 THEN -1 ELSE 1), d |-> 0])
         ELSE LET g == GCD(Abs(p), Abs(q))
                  s == IF q < 0 THEN -1 ELSE 1
              IN  [n |-> s * (p \div g), d |-> s * (q \div g)] :
            p \in {n}, q \in {d}} : TRUE

Dec(k) == Num(k, 10)

Zero == Num(0, 1)

One == Num(1, 1)

IsFinite(x) == x.d > 0

NumAdd(x, y) ==
    CHOOSE r \in
        {IF IsNaN(a) \/ IsNaN(b) THEN NaN
         ELSE IF ~IsFinite(a) /\ ~IsFinite(b) THEN (IF a.n = b.n THEN a ELSE NaN)
         ELSE IF ~IsFinite(a) THEN a
         ELSE IF ~IsFinite(b) THEN b
         ELSE Num(a.n * b.d + b.n * a.d, a.d * b.d) :
            a \in {x}, b \in {y}} : TRUE

NumNeg(x) == CHOOSE r \in {[n |-> -a.n, d |-> a.d] : a \in {x}} : TRUE

NumSub(x, y) == NumAdd(x, NumNeg(y))

NumMul(x, y) ==
    CHOOSE r \in
        {IF IsNaN(a) \/ IsNaN(b) THEN NaN
         ELSE Num(a.n * b.n, a.d * b.d) :
            a \in {x}, b \in {y}} : TRUE

\* x < y; false when either side is NaN, as every JavaScript comparison is.
NumLt(x, y) ==
    \E a \in {x}, b \in {y} :
        /\ ~IsNaN(a)
        /\ ~IsNaN(b)
        /\ a # b
        /\ IF IsFinite(a) /\ IsFinite(b) THEN a.n * b.d < b.n * a.d
           ELSE IF ~IsFinite(a) THEN a.n < 0
           ELSE b.n > 0

NumGt(x, y) == NumLt(y, x)

NumLe(x, y) ==
    \E a \in {x}, b \in {y} : ~IsNaN(a) /\ ~IsNaN(b) /\ ~NumLt(b, a)

NumGe(x, y) == NumLe(y, x)

InRange(x, lo, hi) == \E a \in {x} : NumLe(lo, a) /\ NumLe(a, hi)

\* Math.max(a, b) for two arguments: NaN if either is NaN.
MathMax2(x, y) ==
    CHOOSE r \in
        {IF IsNaN(a) \/ IsNaN(b) THEN NaN
         ELSE IF NumLt(a, b) THEN b ELSE a :
            a \in {x}, b \in {y}} : TRUE

MathMin2(x, y) ==
    CHOOSE r \in
        {IF IsNaN(a) \/ IsNaN(b) THEN NaN
         ELSE IF NumLt(b, a) THEN b ELSE a :
            a \in {x}, b \in {y}} : TRUE

\* A faulty Math.max: a pairwise reduce with ">", which drops or keeps a
\* NaN depending on where it stands in the list.
RECURSIVE MathMaxByCompare(_)
MathMaxByCompare(xs) ==
    IF Len(xs) = 0 THEN NegInfinity
    ELSE IF Len(xs) = 1 THEN xs[1]
    ELSE LET rest == MathMaxByCompare(Tail(xs))
         IN  IF NumGt(xs[1], rest) THEN xs[1] ELSE rest

\* Math.max(...xs): -Infinity for no arguments, NaN if any argument is NaN.
RECURSIVE MathMax(_)
MathMax(xs) ==
    IF Len(xs) = 0 THEN NegInfinity
    ELSE MathMax2(xs[1], MathMax(Tail(xs)))

(***************************************************************************)
(* Characters and texts.                                                   *)
(***************************************************************************)
UpperSeq ==
    <<"A", "B", "C", "D", "E", "F", "G", "H", "I", "J", "K", "L", "M", "N", "O", "P", "Q", "R", "S", "T", "U", "V", "W", "X", "Y", "Z">>

LowerSeq ==
    <<"a", "b", "c", "d", "e", "f", "g", "h", "i", "j", "k", "l", "m", "n", "o", "p", "q", "r", "s", "t", "u", "v", "w", "x", "y", "z">>

UnitWords ==
    { <<"m", "o", "l">>,
      <<"g", "r", "a", "m">>,
      <<"l", "i", "t", "e", "r">>,
      <<"m", "e", "t", "e", "r">>,
      <<"s", "e", "c", "o", "n", "d">>,
      <<"k", "e", "l", "v", "i", "n">>,
      <<"p", "a", "s", "c", "a", "l">>,
      <<"j", "o", "u", "l", "e">>,
      <<"w", "a", "t", "t">>,
      <<"a", "m", "p", "e", "r", "e">>,
      <<"v", "o", "l", "t">>,
      <<"o", "h", "m">>,
      <<"n", "e", "w", "t", "o", "n">>,
      <<"c", "e", "l", "s", "i", "u", "s">>,
      <<"f", "a", "h", "r", "e", "n", "h", "e", "i", "t">> }

OperationWords ==
    { <<"c", "a", "l", "c", "u", "l", "a", "t", "e">>,
      <<"s", "o", "l", "v", "e">>,
      <<"f", "i", "n", "d">>,
      <<"d", "e", "t", "e", "r", "m", "i", "n", "e">>,
      <<"c", "o", "m", "p", "u", "t", "e">>,
      <<"d", "e", "r", "i", "v", "e">>,
      <<"i", "n", "t", "e", "g", "r", "a", "t", "e">>,
      <<"d", "i", "f", "f", "e", "r", "e", "n", "t", "i", "a", "t", "e">> }

ScienceWords ==
    { <<"m", "o", "l", "a", "r", "i", "t", "y">>,
      <<"c", "o", "n", "c", "e", "n", "t", "r", "a", "t", "i", "o", "n">>,
      <<"p", "r", "e", "s", "s", "u", "r", "e">>,
      <<"t", "e", "m", "p", "e", "r", "a", "t", "u", "r", "e">>,
      <<"v", "e", "l", "o", "c", "i", "t", "y">>,
      <<"a", "c", "c", "e", "l", "e", "r", "a", "t", "i", "o", "n">>,
      <<"f", "o", "r", "c", "e">>,
      <<"e", "n", "e", "r", "g", "y">>,
      <<"p", "o", "w", "e", "r">>,
      <<"c", "u", "r", "r", "e", "n", "t">>,
      <<"v", "o", "l", "t", "a", "g", "e">>,
      <<"r", "e", "s", "i", "s", "t", "a", "n", "c", "e">>,
      <<"f", "r", "e", "q", "u", "e", "n", "c", "y">>,
      <<"w", "a", "v", "e", "l", "e", "n", "g", "t", "h">>,
      <<"p", "h">>,
      <<"b", "u", "f", "f", "e", "r">>,
      <<"e", "q", "u", "i", "l", "i", "b", "r", "i", "u", "m">>,
      <<"r", "e", "a", "c", "t", "i", "o", "n">>,
      <<"s", "o", "l", "u", "t", "i", "o", "n">>,
      <<"c", "o", "m", "p", "o", "u", "n", "d">>,
      <<"e", "l", "e", "m", "e", "n", "t">>,
      <<"a", "t", "o", "m">>,
      <<"m", "o", "l", "e", "c", "u", "l", "e">>,
      <<"i", "o", "n">> }

TextList ==
    << <<>>,
       <<"p", "H", " ", "7">>,
       <<"F", "i", "n", "d", " ", "f", "o", "r", "c", "e">>,
       <<"F", "i", "n", "d", " ", "e", "n", "e", "r", "g", "y">>,
       <<"S", "o", "l", "v", "e", " ", "2", " ", "m", "o", "l", " ", "N", "a", "C", "l">>,
       <<"F", "i", "n", "d", " ", "f", "o", "r", "c", "e", ".">> >>

SetOfSeq(s) == {s[i] : i \in 1..Len(s)}

Upper == SetOfSeq(UpperSeq)

Lower == SetOfSeq(LowerSeq)

Digit == {"0", "1", "2", "3", "4", "5", "6", "7", "8", "9"}

\* \s and \w of the regular expressions.
Whitespace == {" "}

WordChars == Upper \cup Lower \cup Digit \cup {"_"}

ToLowerChar(c) ==
    IF c \in Upper THEN LowerSeq[CHOOSE i \in 1..Len(UpperSeq) : UpperSeq[i] = c]
    ELSE c

ToLowerCase(s) == [i \in 1..Len(s) |-> ToLowerChar(s[i])]

\* The first position at or after i whose character is not in class C
\* (Len(s) + 1 when the run reaches the end): the end of a greedy C* at i.
SkipWhile(s, i, C) ==
    CHOOSE j \in i..(Len(s) + 1) :
        /\ \A k \in i..(j - 1) : s[k] \in C
        /\ (j = Len(s) + 1 \/ s[j] \notin C)

Slice(s, i, j) == IF j < i THEN <<>> ELSE SubSeq(s, i, j)

\* The maximal runs of characters of class C in s, left to right.
RECURSIVE RunsFrom(_, _, _)
RunsFrom(s, i, C) ==
    IF i > Len(s) THEN <<>>
    ELSE IF s[i] \in C
         THEN LET j == SkipWhile(s, i, C)
              IN  <<Slice(s, i, j - 1)>> \o RunsFrom(s, j, C)
         ELSE RunsFrom(s, i + 1, C)

Runs(s, C) == RunsFrom(s, 1, C)

(***************************************************************************)
(* Tokenizer / feature extractor (UniquenessValidator).                    *)
(***************************************************************************)

\* text.toLowerCase().replace(/[^\w\s]/g, ' ').split(/\s+/)
\*     .filter(word => word.length > 2), as a set.
tokenize(text) ==
    LET lower == ToLowerCase(text)
        clean == [i \in 1..Len(lower) |->
                     IF lower[i] \in WordChars \cup Whitespace THEN lower[i] ELSE " "]
        words == Runs(clean, WordChars)
    IN  {words[i] : i \in {k \in 1..Len(words) : Len(words[k]) > 2}}

\* .replace(/\d+\.?\d*/g, 'NUM')
RECURSIVE ReplaceNumbers(_, _)
ReplaceNumbers(s, i) ==
    IF i > Len(s) THEN <<>>
    ELSE IF s[i] \in Digit
         THEN LET j == SkipWhile(s, i, Digit)
                  k == IF j <= Len(s) /\ s[j] = "." THEN j + 1 ELSE j
                  m == SkipWhile(s, k, Digit)
              IN  <<"N", "U", "M">> \o ReplaceNumbers(s, m)
         ELSE <<s[i]>> \o ReplaceNumbers(s, i + 1)

\* .replace(/[A-Z][a-z]+/g, 'WORD')
RECURSIVE ReplaceCapitalized(_, _)
ReplaceCapitalized(s, i) ==
    IF i > Len(s) THEN <<>>
    ELSE IF s[i] \in Upper /\ i < Len(s) /\ s[i + 1] \in Lower
         THEN <<"W", "O", "R", "D">>
                  \o ReplaceCapitalized(s, SkipWhile(s, i + 1, Lower))
         ELSE <<s[i]>> \o ReplaceCapitalized(s, i + 1)

\* .replace(/[a-z]+/g, 'word')
RECURSIVE ReplaceLowercase(_, _)
ReplaceLowercase(s, i) ==
    IF i > Len(s) THEN <<>>
    ELSE IF s[i] \in Lower
         THEN <<"w", "o", "r", "d">>
                  \o ReplaceLowercase(s, SkipWhile(s, i, Lower))
         ELSE <<s[i]>> \o ReplaceLowercase(s, i + 1)

\* .replace(/\s+/g, ' ')
RECURSIVE CollapseWhitespace(_, _)
CollapseWhitespace(s, i) ==
    IF i > Len(s) THEN <<>>
    ELSE IF s[i] \in Whitespace
         THEN <<" ">> \o CollapseWhitespace(s, SkipWhile(s, i, Whitespace))
         ELSE <<s[i]>> \o CollapseWhitespace(s, i + 1)

\* .trim()
Trim(s) ==
    LET inside == {i \in 1..Len(s) : s[i] \notin Whitespace}
    IN  IF inside = {} THEN <<>>
        ELSE LET lo == CHOOSE i \in inside : \A k \in inside : i <= k
                 hi == CHOOSE i \in inside : \A k \in inside : k <= i
             IN  SubSeq(s, lo, hi)

extractStructure(text) ==
    CHOOSE structure \in
        {Trim(s4) : s4 \in
            {CollapseWhitespace(s3, 1) : s3 \in
                {ReplaceLowercase(s2, 1) : s2 \in
                    {ReplaceCapitalized(s1, 1) : s1 \in
                        {ReplaceNumbers(text, 1)}}}}} : TRUE

\* The end (exclusive) of the greedy match of
\* [A-Z][a-z]?[0-9]*(?:[A-Z][a-z]?[0-9]*)* starting at i, where s[i] is
\* upper case.
RECURSIVE FormulaEnd(_, _)
FormulaEnd(s, i) ==
    IF i > Len(s) \/ s[i] \notin Upper THEN i
    ELSE LET j == IF i < Len(s) /\ s[i + 1] \in Lower THEN i + 2 ELSE i + 1
         IN  FormulaEnd(s, SkipWhile(s, j, Digit))

\* The matches of /\b(w1|w2|...)\b/gi for a vocabulary: a match between two
\* word boundaries is a whole maximal \w run; each is added lower-cased.
VocabularyMatches(text, vocabulary) ==
    LET runs == Runs(text, WordChars)
    IN  {ToLowerCase(runs[i]) : i \in 1..Len(runs)} \cap vocabulary

\* The matches of /\b[A-Z][a-z]?[0-9]*(?:[A-Z][a-z]?[0-9]*)*/g: the regex has
\* no closing \b, so each \w run that starts upper case yields its greedy
\* prefix, in its original case.
FormulaMatches(text) ==
    LET runs == Runs(text, WordChars)
    IN  {Slice(runs[i], 1, FormulaEnd(runs[i], 1) - 1) :
            i \in {k \in 1..Len(runs) : runs[k][1] \in Upper}}

extractConcepts(text) ==
    VocabularyMatches(text, UnitWords)
        \cup VocabularyMatches(text, OperationWords)
        \cup VocabularyMatches(text, ScienceWords)
        \cup FormulaMatches(text)

\* A faulty minimum: the substitution case is left out.
MinOfFirstTwo(a, b, c) == IF a <= b THEN a ELSE b

(***************************************************************************)
(* Levenshtein distance: the dynamic-programming table, one row per        *)
(* character of str2.  A row is a sequence whose element i + 1 is column i.*)
(***************************************************************************)
Min3(a, b, c) ==
    LET ab == IF a < b THEN a ELSE b
    IN  IF ab < c THEN ab ELSE c

\* The inner loop over i for one row j: acc holds columns 0..i-1.  (The test
\* on Len(next), which always holds, makes TLC build the row cell by cell.)
RECURSIVE LevRow(_, _, _, _, _)
LevRow(prev, str1, ch, acc, i) ==
    IF i > Len(str1) THEN acc
    ELSE LET substitutionCost == IF str1[i] = ch THEN 0 ELSE 1
             cell == Min3(prev[i + 1] + 1,
                          acc[i] + 1,
                          prev[i] + substitutionCost)
             next == Append(acc, cell)
         IN  IF Len(next) = i + 1
             THEN LevRow(prev, str1, ch, next, i + 1)
             ELSE <<>>

\* The outer loop over j: prev is row j - 1.
RECURSIVE LevRows(_, _, _, _)
LevRows(prev, str1, str2, j) ==
    IF j > Len(str2) THEN prev
    ELSE LET row == LevRow(prev, str1, str2[j], <<j>>, 1)
         IN  IF Len(row) = Len(str1) + 1
             THEN LevRows(row, str1, str2, j + 1)
             ELSE <<>>

levenshteinDistance(str1, str2) ==
    LET row0 == [i \in 1..(Len(str1) + 1) |-> i - 1]
    IN  LevRows(row0, str1, str2, 1)[Len(str1) + 1]

(***************************************************************************)
(* Similarity engine (UniquenessValidator) and the semantic oracle         *)
(* (gemini.analyzeSimilarity).                                             *)
(***************************************************************************)

\* intersection.size / union.size of the two token sets.
calculateLexicalSimilarity(text1, text2) ==
    LET words1 == tokenize(text1)
        words2 == tokenize(text2)
    IN  Num(Cardinality(words1 \cap words2), Cardinality(words1 \cup words2))

\* 1 - distance / maxLength over the two structures.
calculateStructuralSimilarity(text1, text2) ==
    CHOOSE similarity \in
        {LET distance == levenshteinDistance(structure1, structure2)
             maxLength == IF Len(structure1) > Len(structure2)
                          THEN Len(structure1) ELSE Len(structure2)
         IN  NumSub(One, Num(distance, maxLength)) :
            structure1 \in {extractStructure(text1)},
            structure2 \in {extractStructure(text2)}} : TRUE

\* The catch block of calculateSemanticSimilarity: Jaccard index of the two
\* concept sets.
ConceptSimilarity(text1, text2) ==
    LET concepts1 == extractConcepts(text1)
        concepts2 == extractConcepts(text2)
    IN  IF concepts1 = {} /\ concepts2 = {} THEN One
        ELSE IF concepts1 = {} \/ concepts2 = {} THEN Zero
        ELSE Num(Cardinality(concepts1 \cap concepts2),
                 Cardinality(concepts1 \cup concepts2))

Texts == SetOfSeq(TextList)

\* A function as an explicit table: comparing the function with itself makes
\* TLC enumerate it once instead of evaluating its body at every use.
Tabulated(f) == CHOOSE g \in {f} : g = f

\* The local sub-scores of every pair of texts, computed once.
LexicalTable ==
    Tabulated([p \in Texts \X Texts |-> calculateLexicalSimilarity(p[1], p[2])])

StructuralTable ==
    Tabulated([p \in Texts \X Texts |-> calculateStructuralSimilarity(p[1], p[2])])

ConceptTable ==
    Tabulated([p \in Texts \X Texts |-> ConceptSimilarity(p[1], p[2])])

\* The numbers the hosted model may answer with: the prompt asks for a
\* similarity "on a scale of 0-1".
OracleScores == {Zero, Num(1, 2), Num(3, 4), One}

\* What one call of the semantic oracle can come to:
\*   score      the response carries similarityScore = value;
\*   noscore    the response parses but carries no similarityScore;
\*   error      generateContent or JSON.parse throws (network, timeout,
\*              quota, malformed response);
\*   unloadable the dynamic import('./gemini') rejects.
SimilarityOutcomes ==
    [kind : {"score"}, value : OracleScores]
        \cup [kind : {"noscore", "error", "unloadable"}, value : {Zero}]

\* gemini.analyzeSimilarity: `result.similarityScore || 0.0`, and 0.0 from
\* its own catch block.
analyzeSimilarity(outcome) ==
    IF outcome.kind = "score"
    THEN (IF outcome.value = Zero THEN Zero ELSE outcome.value)
    ELSE Zero

calculateSemanticSimilarity(text1, text2, outcome) ==
    IF outcome.kind = "unloadable"
    THEN ConceptTable[<<text1, text2>>]
    ELSE analyzeSimilarity(outcome)

LexicalWeight == Dec(3)

StructuralWeight == Dec(3)

SemanticWeight == Dec(4)

\* A faulty combination: the lexical term counts against the similarity.
CombineLexicalInverted(lexicalSim, structuralSim, semanticSim) ==
    NumAdd(NumAdd(NumMul(NumSub(One, lexicalSim), LexicalWeight),
                  NumMul(structuralSim, StructuralWeight)),
           NumMul(semanticSim, SemanticWeight))

\* (lexicalSim * 0.3) + (structuralSim * 0.3) + (semanticSim * 0.4)
CombineSimilarity(lexicalSim, structuralSim, semanticSim) ==
    NumAdd(NumAdd(NumMul(lexicalSim, LexicalWeight),
                  NumMul(structuralSim, StructuralWeight)),
           NumMul(semanticSim, SemanticWeight))

calculateSimilarity(question1, question2, outcome) ==
    CombineSimilarity(LexicalTable[<<question1, question2>>],
                      StructuralTable[<<question1, question2>>],
                      calculateSemanticSimilarity(question1, question2, outcome))

(***************************************************************************)
(* calculateSimilarity as a process: the two local sub-scores are computed *)
(* at the call, then the call awaits the semantic oracle.  A client calls  *)
(* it on a pair of texts, and then again with the two texts swapped.       *)
(***************************************************************************)
VARIABLES
    simPc,      \* "idle", "semantic" (awaiting calculateSemanticSimilarity), "done"
    simArgs,    \* <<question1, question2>> of the call in progress
    simLocal,   \* <<lexicalSim, structuralSim>> of the call in progress
    simLog      \* the completed calls, oldest first

simVars == <<simPc, simArgs, simLocal, simLog>>

SimInit ==
    /\ simPc = "idle"
    /\ simArgs = <<>>
    /\ simLocal = <<>>
    /\ simLog = <<>>

\* Lines 21-22 of calculateSimilarity, up to the await of line 23.
SimStart(question1, question2) ==
    /\ simArgs' = <<question1, question2>>
    /\ simLocal' = <<LexicalTable[<<question1, question2>>],
                     StructuralTable[<<question1, question2>>]>>
    /\ simPc' = "semantic"
    /\ UNCHANGED simLog

SimCall ==
    /\ simPc = "idle"
    /\ \E question1 \in Texts, question2 \in Texts : SimStart(question1, question2)

SimCallSwapped ==
    /\ simPc = "done"
    /\ Len(simLog) = 1
    /\ SimStart(simLog[1].question2, simLog[1].question1)

\* Where an oracle outcome throws: the dynamic import of line 55, or inside
\* analyzeSimilarity's try block (the request or JSON.parse).
ThrowSite(outcome) ==
    CASE outcome.kind = "unloadable" -> "import"
      [] outcome.kind = "error" -> "oracle"
      [] OTHER -> "none"

\* part_000 lines 176 and 210-213: analyzeSimilarity's own try/catch.
CaughtInAnalyzeSimilarity(site) == site = "oracle"

\* A missing catch block.
NothingCaught(site) == FALSE

\* Lines 53-57: the try block holds the import and the awaited call.
CaughtInCalculateSemanticSimilarity(site) == site \in {"import", "oracle"}

\* Whether the promise of calculateSemanticSimilarity rejects.
SemanticCallRejects(outcome) ==
    LET site == ThrowSite(outcome)
    IN  /\ site # "none"
        /\ ~CaughtInAnalyzeSimilarity(site)
        /\ ~CaughtInCalculateSemanticSimilarity(site)

\* The await of line 23 completes with the given oracle outcome; line 26.
\* calculateSimilarity has no try block of its own: a rejection of the
\* awaited promise rejects it.
SimFinish(outcome) ==
    /\ simPc = "semantic"
    /\ IF SemanticCallRejects(outcome)
       THEN /\ simPc' = "rejected"
            /\ UNCHANGED simLog
       ELSE /\ LET semanticSim ==
                       calculateSemanticSimilarity(simArgs[1], simArgs[2], outcome)
               IN  simLog' = Append(simLog,
                       [question1 |-> simArgs[1],
                        question2 |-> simArgs[2],
                        outcome |-> outcome,
                        lexicalSim |-> simLocal[1],
                        structuralSim |-> simLocal[2],
                        semanticSim |-> semanticSim,
                        result |-> CombineSimilarity(simLocal[1], simLocal[2], semanticSim)])
            /\ simPc' = "done"
    /\ UNCHANGED <<simArgs, simLocal>>

SimOracleScores ==
    \E value \in OracleScores : SimFinish([kind |-> "score", value |-> value])

SimOracleNoScore == SimFinish([kind |-> "noscore", value |-> Zero])

SimOracleError == SimFinish([kind |-> "error", value |-> Zero])

SimOracleUnloadable == SimFinish([kind |-> "unloadable", value |-> Zero])

(***************************************************************************)
(* checkUniqueness as a process.  existingQuestions.map(...) starts every  *)
(* calculateSimilarity call at once; each runs to its await of the dynamic *)
(* import, then to its await of the oracle, and Promise.all resumes        *)
(* checkUniqueness when the last one has settled.                          *)
(***************************************************************************)
MaxCorpus == 2

\* The texts the candidate and the corpus are drawn from.
CorpusTexts == {TextList[2], TextList[3], TextList[6]}

RECURSIVE SeqsUpTo(_, _)
SeqsUpTo(S, n) ==
    IF n = 0 THEN {<<>>}
    ELSE LET shorter == SeqsUpTo(S, n - 1)
         IN  shorter \cup {Append(s, x) : s \in {t \in shorter : Len(t) = n - 1}, x \in S}

Corpora == SeqsUpTo(CorpusTexts, MaxCorpus)

VARIABLES
    uqPc,            \* "idle", "awaiting" (Promise.all), "done"
    uqCandidate,     \* newQuestion
    uqCorpus,        \* existingQuestions
    uqCmp,           \* per corpus index: "importing", "calling", "done"
    uqOutcome,       \* per corpus index: the oracle outcome of its comparison
    uqSimilarities,  \* per corpus index: what its calculateSimilarity returned
    uqOrder,         \* the corpus indices in the order their comparisons settled
    uqOracleCalls,   \* analyzeSimilarity calls made by this run
    uqResult         \* the returned uniqueness

uqVars == <<uqPc, uqCandidate, uqCorpus, uqCmp, uqOutcome, uqSimilarities,
            uqOrder, uqOracleCalls, uqResult>>

Pending == [kind |-> "pending", value |-> Zero]

UqInit ==
    /\ uqPc = "idle"
    /\ uqCandidate = <<>>
    /\ uqCorpus = <<>>
    /\ uqCmp = <<>>
    /\ uqOutcome = <<>>
    /\ uqSimilarities = <<>>
    /\ uqOrder = <<>>
    /\ uqOracleCalls = 0
    /\ uqResult = Zero

\* A faulty empty-corpus test: the early return is never taken.
NeverEmptyCorpus(existingQuestions) == FALSE

\* Line 6: the early return on an empty corpus.
IsEmptyCorpus(existingQuestions) == Len(existingQuestions) = 0

\* Lines 15-16: Math.max(0, 1 - Math.max(...similarities)).
UniquenessOf(similarities) ==
    MathMax2(Zero, NumSub(One, MathMax(similarities)))

\* checkUniqueness up to its first await (or its return).
UqCall ==
    /\ uqPc = "idle"
    /\ \E newQuestion \in CorpusTexts, existingQuestions \in Corpora :
        /\ uqCandidate' = newQuestion
        /\ uqCorpus' = existingQuestions
        /\ uqOrder' = <<>>
        /\ uqOracleCalls' = 0
        /\ IF IsEmptyCorpus(existingQuestions)
           THEN /\ uqPc' = "done"
                /\ uqResult' = One
                /\ uqCmp' = <<>>
                /\ uqOutcome' = <<>>
                /\ uqSimilarities' = <<>>
           ELSE IF Len(existingQuestions) = 0
           THEN \* Promise.all of no promises resolves with [].
                /\ uqPc' = "done"
                /\ uqResult' = UniquenessOf(<<>>)
                /\ uqCmp' = <<>>
                /\ uqOutcome' = <<>>
                /\ uqSimilarities' = <<>>
           ELSE /\ uqPc' = "awaiting"
                /\ uqResult' = Zero
                /\ uqCmp' = [i \in 1..Len(existingQuestions) |-> "importing"]
                /\ uqOutcome' = [i \in 1..Len(existingQuestions) |-> Pending]
                /\ uqSimilarities' = [i \in 1..Len(existingQuestions) |-> Zero]

\* A faulty settle: checkUniqueness returns with the first comparison that
\* settles, without waiting for the others.
UqSettleFirst(i, outcome) ==
    LET similarities ==
            [uqSimilarities EXCEPT
                ![i] = calculateSimilarity(uqCandidate, uqCorpus[i], outcome)]
    IN  /\ uqCmp' = [uqCmp EXCEPT ![i] = "done"]
        /\ uqOutcome' = [uqOutcome EXCEPT ![i] = outcome]
        /\ uqSimilarities' = similarities
        /\ uqOrder' = Append(uqOrder, i)
        /\ uqPc' = "done"
        /\ uqResult' = UniquenessOf(similarities)
        /\ UNCHANGED <<uqCandidate, uqCorpus>>

\* Comparison i settles with the given outcome; if it is the last one,
\* Promise.all resolves and checkUniqueness returns (lines 15-16).
UqSettle(i, outcome) ==
    LET similarities ==
            [uqSimilarities EXCEPT
                ![i] = calculateSimilarity(uqCandidate, uqCorpus[i], outcome)]
        cmp == [uqCmp EXCEPT ![i] = "done"]
        allSettled == \A k \in 1..Len(uqCorpus) : cmp[k] = "done"
    IN  /\ uqCmp' = cmp
        /\ uqOutcome' = [uqOutcome EXCEPT ![i] = outcome]
        /\ uqSimilarities' = similarities
        /\ uqOrder' = Append(uqOrder, i)
        /\ uqPc' = IF allSettled THEN "done" ELSE "awaiting"
        /\ uqResult' = IF allSettled THEN UniquenessOf(similarities) ELSE uqResult
        /\ UNCHANGED <<uqCandidate, uqCorpus>>

\* import('./gemini') resolves for comparison i and analyzeSimilarity is called.
UqImportResolves ==
    /\ uqPc = "awaiting"
    /\ \E i \in 1..Len(uqCorpus) :
        /\ uqCmp[i] = "importing"
        /\ uqCmp' = [uqCmp EXCEPT ![i] = "calling"]
        /\ uqOracleCalls' = uqOracleCalls + 1
        /\ UNCHANGED <<uqPc, uqCandidate, uqCorpus, uqOutcome, uqSimilarities,
                       uqOrder, uqResult>>

\* import('./gemini') rejects for comparison i: the catch block's fallback.
UqImportRejects ==
    /\ uqPc = "awaiting"
    /\ \E i \in 1..Len(uqCorpus) :
        /\ uqCmp[i] = "importing"
        /\ UqSettle(i, [kind |-> "unloadable", value |-> Zero])
        /\ UNCHANGED uqOracleCalls

UqOracleScores ==
    /\ uqPc = "awaiting"
    /\ \E i \in 1..Len(uqCorpus), value \in OracleScores :
        /\ uqCmp[i] = "calling"
        /\ UqSettle(i, [kind |-> "score", value |-> value])
        /\ UNCHANGED uqOracleCalls

UqOracleNoScore ==
    /\ uqPc = "awaiting"
    /\ \E i \in 1..Len(uqCorpus) :
        /\ uqCmp[i] = "calling"
        /\ UqSettle(i, [kind |-> "noscore", value |-> Zero])
        /\ UNCHANGED uqOracleCalls

UqOracleError ==
    /\ uqPc = "awaiting"
    /\ \E i \in 1..Len(uqCorpus) :
        /\ uqCmp[i] = "calling"
        /\ UqSettle(i, [kind |-> "error", value |-> Zero])
        /\ UNCHANGED uqOracleCalls

(***************************************************************************)
(* Difficulty analyzer (DifficultyAnalyzer) and the difficulty oracle      *)
(* (gemini.assessQuestionDifficulty).  The question text and the subject   *)
(* enter the score only through the counts and flags the scoring reads off *)
(* them; a question is represented by those:                               *)
(*   words         text.split(/\s+/).length, at least 1                    *)
(*   sentences     text.split(/[.!?]+/).length, at least 1                 *)
(*   complexWords  matches of /\b\w{8,}\b/g                                *)
(*   subject       the case of the switch in getSubjectAdjustment          *)
(*   keywords      which of that case's four keywords the text includes    *)
(*   mathMatches   matches of the five mathPatterns together               *)
(*   stepWord      the text includes 'step', 'calculate' or 'solve'        *)
(***************************************************************************)
Subjects == {"chemistry", "physics", "biology", "computer science", "other"}

\* The bonus, in tenths, of each keyword of each case of the switch, in the
\* order of the source.
SubjectBonus ==
    [s \in Subjects |->
        CASE s = "chemistry" -> <<10, 5, 15, 5>>
          [] s = "physics" -> <<20, 10, 10, 5>>
          [] s = "biology" -> <<10, 15, 10, 5>>
          [] s = "computer science" -> <<10, 15, 10, 5>>
          [] OTHER -> <<0, 0, 0, 0>>]

Questions ==
    {q \in [words : {1, 12, 120},
            sentences : {1, 3},
            complexWords : {0, 1, 6},
            subject : Subjects,
            keywords : {{}, {1}, {1, 2, 3, 4}},
            mathMatches : {0, 7},
            stepWord : BOOLEAN] :
        /\ q.complexWords <= q.words
        /\ (q.subject = "other" => q.keywords = {})}

RECURSIVE SumOver(_, _)
SumOver(S, f) ==
    IF S = {} THEN 0
    ELSE LET x == CHOOSE y \in S : TRUE
         IN  f[x] + SumOver(S \ {x}, f)

analyzeTextComplexity(q) ==
    LET avgWordsPerSentence == Num(q.words, q.sentences)
    IN  [lengthFactor |-> MathMin2(Num(2, 1), Num(q.words, 50)),
         vocabularyFactor |->
             MathMin2(Num(15, 10), NumMul(Num(q.complexWords, q.words), Num(10, 1))),
         structureFactor |->
             MathMin2(One, NumMul(avgWordsPerSentence, Num(1, 15)))]

getSubjectAdjustment(q) ==
    Dec(SumOver(q.keywords, SubjectBonus[q.subject]))

analyzeMathematicalComplexity(q) ==
    LET complexity ==
            NumAdd(Dec(3 * q.mathMatches), IF q.stepWord THEN Dec(5) ELSE Zero)
    IN  MathMin2(Num(2, 1), complexity)

MinDifficulty == Num(1, 1)

MaxDifficulty == Num(10, 1)

\* A faulty clamp: the upper limit is missing.
ClampBelowOnly(score) == MathMax2(MinDifficulty, score)

\* Math.max(1, Math.min(10, score))
ClampDifficulty(score) == MathMax2(MinDifficulty, MathMin2(MaxDifficulty, score))

applyRuleBasedScoring(q) ==
    LET complexity == analyzeTextComplexity(q)
        score == NumAdd(NumAdd(NumAdd(NumAdd(NumAdd(Num(5, 1),
                     complexity.lengthFactor),
                     complexity.vocabularyFactor),
                     complexity.structureFactor),
                     getSubjectAdjustment(q)),
                     analyzeMathematicalComplexity(q))
    IN  ClampDifficulty(score)

\* The rule-based score of every question, computed once.
RuleScoreTable == Tabulated([q \in Questions |-> applyRuleBasedScoring(q)])

DefaultDifficulty == Num(5, 1)

\* The scores the hosted model may answer with: the prompt asks for a rating
\* "on a scale of 1-10".
DifficultyScores == {Num(1, 1), Num(5, 1), Num(15, 2), Num(10, 1)}

\* gemini.assessQuestionDifficulty: `result.difficultyScore || 5.0`, and 5.0
\* from its own catch block; it never throws.
assessQuestionDifficulty(outcome) ==
    IF outcome.kind = "score"
    THEN (IF outcome.value = Zero THEN DefaultDifficulty ELSE outcome.value)
    ELSE DefaultDifficulty

\* An optional targetDifficulty is <<>> or <<t>>; `if (targetDifficulty)` is
\* false for undefined, 0 and NaN.
Truthy(opt) == Len(opt) = 1 /\ ~IsNaN(opt[1]) /\ opt[1] # Zero

TargetValues == {Zero, Num(1, 1), Num(11, 2), Num(8, 1), Num(10, 1), Num(12, 1)}

Targets == {<<>>} \cup {<<t>> : t \in TargetValues}

\* Line 25.
BlendScores(aiAssessment, ruleBasedScore) ==
    NumAdd(NumMul(aiAssessment, Dec(7)), NumMul(ruleBasedScore, Dec(3)))

\* A faulty pull toward the target: the adjustment overshoots.
PullPastTarget(finalScore, target) ==
    ClampDifficulty(NumAdd(finalScore, NumMul(NumSub(target, finalScore), Dec(12))))

\* Lines 29-30.
PullTowardTarget(finalScore, target) ==
    LET adjustment == NumMul(NumSub(target, finalScore), Dec(2))
    IN  ClampDifficulty(NumAdd(finalScore, adjustment))

\* Math.round(x): the integer nearest x, halves rounded up.
MathRound(x) == CHOOSE r \in {(2 * a.n + a.d) \div (2 * a.d) : a \in {x}} : TRUE

\* A faulty return: the rounding of line 33 is missing.
ReturnUnrounded(finalScore) == finalScore

\* Line 33: Math.round(finalScore * 10) / 10.
RoundToTenth(finalScore) == Num(MathRound(NumMul(finalScore, Num(10, 1))), 10)

\* Line 37, the catch block of analyzeDifficulty.
DifficultyFallback(targetDifficulty) ==
    IF Truthy(targetDifficulty) THEN targetDifficulty[1] ELSE DefaultDifficulty

VARIABLES
    dfPc,        \* "idle", "assessing" (awaiting assessQuestionDifficulty), "done"
    dfQuestion,  \* the question, as the counts the scoring reads
    dfTarget,    \* targetDifficulty: <<>> or <<t>>
    dfOutcome,   \* the oracle outcome of this call
    dfBlend,     \* finalScore after line 25
    dfFinal,     \* finalScore before the rounding of line 33
    dfResult     \* the returned difficulty

dfVars == <<dfPc, dfQuestion, dfTarget, dfOutcome, dfBlend, dfFinal, dfResult>>

DfInit ==
    /\ dfPc = "idle"
    /\ dfQuestion = CHOOSE q \in Questions : TRUE
    /\ dfTarget = <<>>
    /\ dfOutcome = Pending
    /\ dfBlend = Zero
    /\ dfFinal = Zero
    /\ dfResult = Zero

\* analyzeDifficulty up to the await of line 19.
DfCall ==
    /\ dfPc = "idle"
    /\ \E q \in Questions, targetDifficulty \in Targets :
        /\ dfQuestion' = q
        /\ dfTarget' = targetDifficulty
    /\ dfPc' = "assessing"
    /\ UNCHANGED <<dfOutcome, dfBlend, dfFinal, dfResult>>

\* The await of line 19 completes; lines 22-33.
DfFinish(outcome) ==
    /\ dfPc = "assessing"
    /\ \E aiAssessment \in {assessQuestionDifficulty(outcome)},
          ruleBasedScore \in {RuleScoreTable[dfQuestion]} :
          \E blended \in {BlendScores(aiAssessment, ruleBasedScore)} :
             \E finalScore \in {IF Truthy(dfTarget)
                                 THEN PullTowardTarget(blended, dfTarget[1])
                                 ELSE blended} :
                /\ dfBlend' = blended
                /\ dfFinal' = finalScore
                /\ dfResult' = RoundToTenth(finalScore)
    /\ dfOutcome' = outcome
    /\ dfPc' = "done"
    /\ UNCHANGED <<dfQuestion, dfTarget>>

DfOracleScores ==
    \E value \in DifficultyScores : DfFinish([kind |-> "score", value |-> value])

DfOracleNoScore == DfFinish([kind |-> "noscore", value |-> Zero])

DfOracleError == DfFinish([kind |-> "error", value |-> Zero])

(***************************************************************************)
(* validateQuestionSet as a process: the two nested loops await one        *)
(* calculateSimilarity call per pair i < j, one after the other, and the   *)
(* statistics and recommendations are computed when the loops end.         *)
(***************************************************************************)
MaxQuestions == 3

\* The texts the question sets are drawn from.
SetTexts == {TextList[2], TextList[3], TextList[6]}

QuestionSets == SeqsUpTo(SetTexts, MaxQuestions)

\* The oracle's answers considered for the comparisons of a set.
SetOracleScores == {Num(3, 4), One}

SIMILARITY_THRESHOLD == Dec(7)

HIGH_SIMILARITY_THRESHOLD == Dec(9)

VARIABLES
    vqPc,               \* "idle", "comparing" (awaiting calculateSimilarity), "done"
    vqQuestions,        \* questions
    vqI,                \* the loop variables i and j (indices from 0)
    vqJ,
    vqPhase,            \* of the awaited comparison: "importing" or "calling"
    vqOracleCalls,      \* analyzeSimilarity calls made by this run
    vqLog,              \* every comparison made: [i, j, outcome, similarity]
    vqDuplicates,       \* duplicates
    vqSimilarities,     \* similarities (the uniqueness samples 1 - similarity)
    vqAvgUniqueness,    \* the returned avgUniqueness
    vqIsValid,          \* the returned isValid
    vqRecommendations   \* the returned recommendations

vqVars == <<vqPc, vqQuestions, vqI, vqJ, vqPhase, vqOracleCalls, vqLog,
            vqDuplicates, vqSimilarities, vqAvgUniqueness, vqIsValid,
            vqRecommendations>>

VqInit ==
    /\ vqPc = "idle"
    /\ vqQuestions = <<>>
    /\ vqI = 0
    /\ vqJ = 0
    /\ vqPhase = "none"
    /\ vqOracleCalls = 0
    /\ vqLog = <<>>
    /\ vqDuplicates = <<>>
    /\ vqSimilarities = <<>>
    /\ vqAvgUniqueness = Zero
    /\ vqIsValid = FALSE
    /\ vqRecommendations = <<>>

\* similarities.reduce((a, b) => a + b, 0)
RECURSIVE SumNumbers(_)
SumNumbers(xs) ==
    IF Len(xs) = 0 THEN Zero
    ELSE NumAdd(SumNumbers(SubSeq(xs, 1, Len(xs) - 1)), xs[Len(xs)])

\* A faulty average: 0 instead of 1.0 when there is no pair.
AverageUniquenessZeroDefault(similarities) ==
    IF Len(similarities) > 0
    THEN NumMul(SumNumbers(similarities), Num(1, Len(similarities)))
    ELSE Zero

\* Line 159.
AverageUniqueness(similarities) ==
    IF Len(similarities) > 0
    THEN NumMul(SumNumbers(similarities), Num(1, Len(similarities)))
    ELSE One

\* A faulty duplicate test: ">=" for ">".
IsDuplicateInclusive(similarity) == NumGe(similarity, HIGH_SIMILARITY_THRESHOLD)

\* Line 149.
IsDuplicate(similarity) == NumGt(similarity, HIGH_SIMILARITY_THRESHOLD)

\* Line 160.
IsValidSet(duplicates, avgUniqueness) ==
    Len(duplicates) = 0 /\ NumGe(avgUniqueness, SIMILARITY_THRESHOLD)

\* Lines 162-170.
Recommendations(duplicates, avgUniqueness) ==
    (IF Len(duplicates) > 0
     THEN <<[text |-> "Found highly similar question pairs", count |-> Len(duplicates)],
            [text |-> "Consider regenerating questions with higher variation parameters",
             count |-> 0]>>
     ELSE <<>>)
    \o
    (IF NumLt(avgUniqueness, SIMILARITY_THRESHOLD)
     THEN <<[text |-> "Overall uniqueness is below threshold", count |-> 0],
            [text |-> "Increase template variety or generation parameters", count |-> 0]>>
     ELSE <<>>)

\* Lines 159-177, once the loops have ended.
VqReturn(duplicates, similarities) ==
    \E avgUniqueness \in {AverageUniqueness(similarities)} :
        /\ vqAvgUniqueness' = avgUniqueness
        /\ vqIsValid' = IsValidSet(duplicates, avgUniqueness)
        /\ vqRecommendations' = Recommendations(duplicates, avgUniqueness)
        /\ vqPc' = "done"
        /\ vqPhase' = "none"

\* validateQuestionSet up to its first await, or to its return when the set
\* has no pair.
VqCall ==
    /\ vqPc = "idle"
    /\ \E questions \in QuestionSets :
        /\ vqQuestions' = questions
        /\ vqLog' = <<>>
        /\ vqDuplicates' = <<>>
        /\ vqSimilarities' = <<>>
        /\ vqOracleCalls' = 0
        /\ IF Len(questions) >= 2
           THEN /\ vqI' = 0
                /\ vqJ' = 1
                /\ vqPc' = "comparing"
                /\ vqPhase' = "importing"
                /\ UNCHANGED <<vqAvgUniqueness, vqIsValid, vqRecommendations>>
           ELSE /\ vqI' = Len(questions)
                /\ vqJ' = Len(questions)
                /\ VqReturn(<<>>, <<>>)

\* The awaited calculateSimilarity(questions[i], questions[j]) returns with
\* the given oracle outcome: lines 147-155, then on to the next pair or out
\* of the loops.
VqCompared(outcome) ==
    \E similarity \in {calculateSimilarity(vqQuestions[vqI + 1],
                                            vqQuestions[vqJ + 1], outcome)} :
      \E similarities \in {Append(vqSimilarities, NumSub(One, similarity))},
         duplicates \in {IF IsDuplicate(similarity)
                         THEN Append(vqDuplicates,
                                  [question1 |-> vqI, question2 |-> vqJ,
                                   similarity |-> similarity])
                         ELSE vqDuplicates} :
        /\ vqSimilarities' = similarities
        /\ vqDuplicates' = duplicates
        /\ vqLog' = Append(vqLog, [i |-> vqI, j |-> vqJ, outcome |-> outcome,
                                   similarity |-> similarity])
        /\ IF vqJ + 1 < Len(vqQuestions)
           THEN /\ vqJ' = vqJ + 1
                /\ vqPhase' = "importing"
                /\ UNCHANGED <<vqI, vqPc, vqAvgUniqueness, vqIsValid,
                               vqRecommendations>>
           ELSE IF vqI + 2 < Len(vqQuestions)
           THEN /\ vqI' = vqI + 1
                /\ vqJ' = vqI + 2
                /\ vqPhase' = "importing"
                /\ UNCHANGED <<vqPc, vqAvgUniqueness, vqIsValid,
                               vqRecommendations>>
           ELSE /\ vqI' = Len(vqQuestions)
                /\ vqJ' = Len(vqQuestions)
                /\ VqReturn(duplicates, similarities)
        /\ UNCHANGED vqQuestions

\* A faulty run that starts a second oracle call for the same pair.
VqImportResolvesTwice ==
    /\ vqPc = "comparing"
    /\ vqPhase = "importing"
    /\ vqPhase' = "calling"
    /\ vqOracleCalls' = vqOracleCalls + 2
    /\ UNCHANGED <<vqPc, vqQuestions, vqI, vqJ, vqLog, vqDuplicates,
                   vqSimilarities, vqAvgUniqueness, vqIsValid, vqRecommendations>>

\* import('./gemini') resolves and analyzeSimilarity is called.
VqImportResolves ==
    /\ vqPc = "comparing"
    /\ vqPhase = "importing"
    /\ vqPhase' = "calling"
    /\ vqOracleCalls' = vqOracleCalls + 1
    /\ UNCHANGED <<vqPc, vqQuestions, vqI, vqJ, vqLog, vqDuplicates,
                   vqSimilarities, vqAvgUniqueness, vqIsValid, vqRecommendations>>

\* import('./gemini') rejects: the catch block's fallback.
VqImportRejects ==
    /\ vqPc = "comparing"
    /\ vqPhase = "importing"
    /\ VqCompared([kind |-> "unloadable", value |-> Zero])
    /\ UNCHANGED vqOracleCalls

VqOracleScores ==
    /\ vqPc = "comparing"
    /\ vqPhase = "calling"
    /\ \E value \in SetOracleScores : VqCompared([kind |-> "score", value |-> value])
    /\ UNCHANGED vqOracleCalls

VqOracleError ==
    /\ vqPc = "comparing"
    /\ vqPhase = "calling"
    /\ VqCompared([kind |-> "error", value |-> Zero])
    /\ UNCHANGED vqOracleCalls

(***************************************************************************)
(* identifyPlagiarism as a process: the same two nested loops as           *)
(* validateQuestionSet, one awaited calculateSimilarity call per pair, and *)
(* the risk tiers of lines 200-211.                                        *)
(***************************************************************************)
MaxAnswers == 3

\* The answer texts the submissions are drawn from.
AnswerTexts == {TextList[2], TextList[3], TextList[6]}

\* The student of the k-th submission: every submission has its own student.
StudentId(k) == <<"s1", "s2", "s3", "s4", "s5">>[k]

StudentAnswers ==
    {[k \in 1..Len(texts) |-> [studentId |-> StudentId(k), answer |-> texts[k]]] :
        texts \in SeqsUpTo(AnswerTexts, MaxAnswers)}

VARIABLES
    ipPc,               \* "idle", "comparing" (awaiting calculateSimilarity), "done"
    ipAnswers,          \* studentAnswers
    ipI,                \* the loop variables i and j (indices from 0)
    ipJ,
    ipPhase,            \* of the awaited comparison: "importing" or "calling"
    ipOracleCalls,      \* analyzeSimilarity calls made by this run
    ipLog,              \* every comparison made: [i, j, outcome, similarity]
    ipChecks            \* plagiarismChecks

ipVars == <<ipPc, ipAnswers, ipI, ipJ, ipPhase, ipOracleCalls, ipLog, ipChecks>>

IpInit ==
    /\ ipPc = "idle"
    /\ ipAnswers = <<>>
    /\ ipI = 0
    /\ ipJ = 0
    /\ ipPhase = "none"
    /\ ipOracleCalls = 0
    /\ ipLog = <<>>
    /\ ipChecks = <<>>

\* A faulty tiering: ">=" for ">" at both thresholds.
RiskLevelInclusive(similarity) ==
    IF NumGe(similarity, Dec(9)) THEN "high"
    ELSE IF NumGe(similarity, Dec(7)) THEN "medium"
    ELSE "low"

\* Lines 200-202.
RiskLevel(similarity) ==
    IF NumGt(similarity, Dec(9)) THEN "high"
    ELSE IF NumGt(similarity, Dec(7)) THEN "medium"
    ELSE "low"

\* identifyPlagiarism up to its first await, or to its return when there is
\* no pair.
IpCall ==
    /\ ipPc = "idle"
    /\ \E studentAnswers \in StudentAnswers :
        /\ ipAnswers' = studentAnswers
        /\ ipLog' = <<>>
        /\ ipChecks' = <<>>
        /\ ipOracleCalls' = 0
        /\ IF Len(studentAnswers) >= 2
           THEN /\ ipI' = 0
                /\ ipJ' = 1
                /\ ipPc' = "comparing"
                /\ ipPhase' = "importing"
           ELSE /\ ipI' = Len(studentAnswers)
                /\ ipJ' = Len(studentAnswers)
                /\ ipPc' = "done"
                /\ ipPhase' = "none"

\* The awaited calculateSimilarity(studentAnswers[i].answer,
\* studentAnswers[j].answer) returns with the given oracle outcome: lines
\* 200-211, then on to the next pair or to the return of line 215.
IpCompared(outcome) ==
    \E similarity \in {calculateSimilarity(ipAnswers[ipI + 1].answer,
                                            ipAnswers[ipJ + 1].answer, outcome)} :
      \E riskLevel \in {RiskLevel(similarity)} :
        /\ ipChecks' = IF riskLevel # "low"
                       THEN Append(ipChecks,
                                [student1 |-> ipAnswers[ipI + 1].studentId,
                                 student2 |-> ipAnswers[ipJ + 1].studentId,
                                 similarity |-> similarity,
                                 riskLevel |-> riskLevel])
                       ELSE ipChecks
        /\ ipLog' = Append(ipLog, [i |-> ipI, j |-> ipJ, outcome |-> outcome,
                                   similarity |-> similarity])
        /\ IF ipJ + 1 < Len(ipAnswers)
           THEN /\ ipJ' = ipJ + 1
                /\ ipPhase' = "importing"
                /\ UNCHANGED <<ipI, ipPc>>
           ELSE IF ipI + 2 < Len(ipAnswers)
           THEN /\ ipI' = ipI + 1
                /\ ipJ' = ipI + 2
                /\ ipPhase' = "importing"
                /\ UNCHANGED ipPc
           ELSE /\ ipI' = Len(ipAnswers)
                /\ ipJ' = Len(ipAnswers)
                /\ ipPc' = "done"
                /\ ipPhase' = "none"
        /\ UNCHANGED ipAnswers

\* import('./gemini') resolves and analyzeSimilarity is called.
IpImportResolves ==
    /\ ipPc = "comparing"
    /\ ipPhase = "importing"
    /\ ipPhase' = "calling"
    /\ ipOracleCalls' = ipOracleCalls + 1
    /\ UNCHANGED <<ipPc, ipAnswers, ipI, ipJ, ipLog, ipChecks>>

\* import('./gemini') rejects: the catch block's fallback.
IpImportRejects ==
    /\ ipPc = "comparing"
    /\ ipPhase = "importing"
    /\ IpCompared([kind |-> "unloadable", value |-> Zero])
    /\ UNCHANGED ipOracleCalls

IpOracleScores ==
    /\ ipPc = "comparing"
    /\ ipPhase = "calling"
    /\ \E value \in SetOracleScores : IpCompared([kind |-> "score", value |-> value])
    /\ UNCHANGED ipOracleCalls

IpOracleError ==
    /\ ipPc = "comparing"
    /\ ipPhase = "calling"
    /\ IpCompared([kind |-> "error", value |-> Zero])
    /\ UNCHANGED ipOracleCalls

(***************************************************************************)
(* levenshteinDistance as a process: called on two strings, it returns.    *)
(***************************************************************************)
MaxLen == 3

LevAlphabet == {"a", "b"}

LevStrings == SeqsUpTo(LevAlphabet, MaxLen)

Kitten == <<"k", "i", "t", "t", "e", "n">>

Sitting == <<"s", "i", "t", "t", "i", "n", "g">>

\* The argument pairs: every pair of short strings, and the documented one.
LevInputs == (LevStrings \X LevStrings) \cup {<<Kitten, Sitting>>}

VARIABLES
    levPc,              \* "idle", "called", "done"
    levStr1,            \* str1
    levStr2,            \* str2
    levResult           \* the returned distance

levVars == <<levPc, levStr1, levStr2, levResult>>

LevInit ==
    /\ levPc = "idle"
    /\ levStr1 = <<>>
    /\ levStr2 = <<>>
    /\ levResult = 0

LevCall ==
    /\ levPc \in {"idle", "done"}
    /\ \E p \in LevInputs :
        /\ levStr1' = p[1]
        /\ levStr2' = p[2]
    /\ levPc' = "called"
    /\ levResult' = 0

LevReturn ==
    /\ levPc = "called"
    /\ levResult' = levenshteinDistance(levStr1, levStr2)
    /\ levPc' = "done"
    /\ UNCHANGED <<levStr1, levStr2>>

(***************************************************************************)
(* Difficulty distribution and balance (DifficultyAnalyzer), and the       *)
(* distribution of getQuestionStatistics (QuestionGenerator).  The three   *)
(* are synchronous over their inputs: one step each.                       *)
(***************************************************************************)
MaxScores == 5

\* The difficulty scores the lists are drawn from: the bucket limits and
\* their next tenths.
ScoreValues == {Num(3, 1), Num(31, 10), Num(6, 1), Num(61, 10)}

ScoreLists == SeqsUpTo(ScoreValues, MaxScores)

\* Stored questions: difficultyScore is a number or null (<<>>).
StoredScoreLists == SeqsUpTo({<<x>> : x \in ScoreValues} \cup {<<>>}, MaxScores)

\* The keys of the distribution, in the order the object literal lists them.
Levels == <<"Easy (1-3)", "Medium (4-6)", "Hard (7-10)">>

LevelSet == {Levels[k] : k \in 1..Len(Levels)}

DefaultTarget ==
    (Levels[1] :> Num(25, 100)) @@ (Levels[2] :> Num(50, 100)) @@ (Levels[3] :> Num(25, 100))

\* A caller's own target distribution.
CustomTarget ==
    (Levels[1] :> Num(50, 100)) @@ (Levels[2] :> Num(50, 100)) @@ (Levels[3] :> Zero)

\* targetDistribution: absent (<<>>) or given.
BalanceTargets == {<<>>, <<CustomTarget>>}

\* A faulty bucket rule: the limits 3 and 6 fall into the upper bucket.
BucketExclusive(score) ==
    IF NumLt(score, Num(3, 1)) THEN Levels[1]
    ELSE IF NumLt(score, Num(6, 1)) THEN Levels[2]
    ELSE Levels[3]

\* Lines 172-174 (and questionGenerator.ts lines 224-226).
Bucket(score) ==
    IF NumLe(score, Num(3, 1)) THEN Levels[1]
    ELSE IF NumLe(score, Num(6, 1)) THEN Levels[2]
    ELSE Levels[3]

getDifficultyDistribution(scores) ==
    [level \in LevelSet |->
        Cardinality({k \in 1..Len(scores) : Bucket(scores[k]) = level})]

\* q.difficultyScore || 0
ScoreOrZero(stored) ==
    IF Len(stored) = 0 \/ stored[1] = Zero \/ IsNaN(stored[1]) THEN Zero ELSE stored[1]

\* getQuestionStatistics, lines 203-227: its difficultyDistribution, which
\* is the empty object when there is no question.
StatisticsDistribution(stored) ==
    IF Len(stored) = 0
    THEN [level \in {} |-> 0]
    ELSE [level \in LevelSet |->
            Cardinality({k \in 1..Len(stored) : Bucket(ScoreOrZero(stored[k])) = level})]

(***************************************************************************)
(* IEEE 754 doubles for the ratios of validateDifficultyBalance.  A value  *)
(* in [0,1] is a sequence of bits: the units bit, then FractionBits        *)
(* fractional bits.  A double keeps MantissaBits significant bits, rounded *)
(* to nearest, ties to even.  <<>> stands for NaN.                         *)
(***************************************************************************)
MantissaBits == 53

FractionBits == 64

DoubleNaN == <<>>

\* 2^k modulo total, for k up to FractionBits, taken in steps of 16 bits.
PowerOfTwoMod(k, total) ==
    LET step == (2 ^ 16) % total
        steps == IF k < 16 THEN 1 % total
                 ELSE IF step = 0 THEN 0
                 ELSE (step ^ (k \div 16)) % total
    IN  (steps * ((2 ^ (k % 16)) % total)) % total

\* What is left of r / total after its first k fractional bits, for
\* r < total: (r * 2^k) modulo total.
RemainderAfter(r, total, k) == (r * PowerOfTwoMod(k, total)) % total

\* The first k fractional bits of r / total, for r < total: long division,
\* each bit from the remainder before it.
ExpandFraction(r, total, k) ==
    [i \in 1..k |-> (2 * RemainderAfter(r, total, i - 1)) \div total]

\* The position of the leading 1, or 0 if there is none.
FirstOne(bits) ==
    IF \E i \in 1..Len(bits) : bits[i] = 1
    THEN CHOOSE i \in 1..Len(bits) :
            bits[i] = 1 /\ \A j \in 1..(i - 1) : bits[j] = 0
    ELSE 0

\* bits plus one unit in position pos: the carry runs left over the 1s
\* down to the nearest 0.
AddOneAt(bits, pos) ==
    LET zeros == {q \in 1..pos : bits[q] = 0}
        stop == IF zeros = {} THEN 0
                ELSE CHOOSE q \in zeros : \A other \in zeros : other <= q
    IN  [i \in 1..Len(bits) |->
            IF i = stop THEN 1
            ELSE IF i > stop /\ i <= pos THEN 0
            ELSE bits[i]]

\* Rounding to MantissaBits significant bits, to nearest, ties to even;
\* sticky says that the exact value has further bits beyond the sequence.
RoundToDouble(bits, sticky) ==
    LET p == FirstOne(bits)
        last == p + MantissaBits - 1
    IN  IF p = 0 \/ last >= Len(bits) THEN bits
        ELSE LET guard == bits[last + 1]
                 rest == sticky \/ \E i \in (last + 2)..Len(bits) : bits[i] = 1
                 truncated == [i \in 1..Len(bits) |-> IF i <= last THEN bits[i] ELSE 0]
             IN  IF guard = 1 /\ (rest \/ bits[last] = 1)
                 THEN AddOneAt(truncated, last)
                 ELSE truncated

\* The double n / d for 0 <= n <= d: NaN for 0 / 0.
DoubleOfRatio(n, d) ==
    IF d = 0 THEN DoubleNaN
    ELSE RoundToDouble(<<n \div d>> \o ExpandFraction(n % d, d, FractionBits),
                       RemainderAfter(n % d, d, FractionBits) # 0)

\* a < b on bit sequences of the same length.
LessBits(a, b) ==
    \E i \in 1..Len(a) : a[i] < b[i] /\ \A j \in 1..(i - 1) : a[j] = b[j]

\* The borrow into position i of a - b: the bits right of i make a smaller
\* number in a than in b.
BorrowInto(a, b, i) ==
    \E j \in (i + 1)..Len(a) :
        a[j] < b[j] /\ \A k \in (i + 1)..(j - 1) : a[k] = b[k]

\* a - b for a >= b, bit by bit with the borrow from the right.
SubtractBits(a, b) ==
    [i \in 1..Len(a) |->
        (a[i] - b[i] - (IF BorrowInto(a, b, i) THEN 1 ELSE 0)) % 2]

\* x < y: false when either side is NaN.
DoubleLt(x, y) == x # DoubleNaN /\ y # DoubleNaN /\ LessBits(x, y)

DoubleGt(x, y) == DoubleLt(y, x)

\* Math.abs(x - y)
DoubleAbsDifference(x, y) ==
    IF x = DoubleNaN \/ y = DoubleNaN THEN DoubleNaN
    ELSE IF LessBits(x, y)
    THEN RoundToDouble(SubtractBits(y, x), FALSE)
    ELSE RoundToDouble(SubtractBits(x, y), FALSE)

\* The double a number literal or a count / total stands for.
DoubleOf(x) == DoubleOfRatio(x.n, x.d)

\* The literal 0.15 of line 201.
Tolerance == DoubleOf(Num(15, 100))

\* Lines 203-207.
RecommendationKind(belowExpected) ==
    IF belowExpected THEN "Need more" ELSE "Too many"

\* Lines 198-201 for one level: whether count / total is further than the
\* tolerance from the expected ratio.
OutOfTolerance(count, total, expected) ==
    DoubleGt(DoubleAbsDifference(DoubleOfRatio(count, total), DoubleOf(expected)),
             Tolerance)

\* Line 203 for one level: currentRatio < expectedRatio.
BelowExpected(count, total, expected) ==
    DoubleLt(DoubleOfRatio(count, total), DoubleOf(expected))

\* The target ratios a distribution may name.
TargetRatios == {Zero, Num(25, 100), Num(50, 100)}

\* The two tests, computed once for every count, total and target ratio.
RatioCases ==
    {<<count, total, expected>> :
        count \in 0..MaxScores, total \in 0..MaxScores, expected \in TargetRatios}

OutOfToleranceCases ==
    {a \in RatioCases : a[1] <= a[2] /\ OutOfTolerance(a[1], a[2], a[3])}

BelowExpectedCases ==
    {a \in RatioCases : a[1] <= a[2] /\ BelowExpected(a[1], a[2], a[3])}

\* The forEach of lines 197-209 over the first k entries of the target.
RECURSIVE BalanceRecommendations(_, _, _, _)
BalanceRecommendations(currentDist, total, target, k) ==
    IF k = 0 THEN <<>>
    ELSE LET before == BalanceRecommendations(currentDist, total, target, k - 1)
             case == <<currentDist[Levels[k]], total, target[Levels[k]]>>
         IN  IF case \in OutOfToleranceCases
             THEN Append(before,
                      [kind |-> RecommendationKind(case \in BelowExpectedCases),
                       level |-> Levels[k]])
             ELSE before

VARIABLES
    balOp,              \* the last call: "none", "distribution", "statistics", "balance"
    balScores,          \* its scores (stored scores for "statistics")
    balTarget,          \* targetDistribution, for "balance"
    balDistribution,    \* the distribution returned
    balIsBalanced,      \* isBalanced
    balRecommendations  \* recommendations

balVars == <<balOp, balScores, balTarget, balDistribution, balIsBalanced,
             balRecommendations>>

BalInit ==
    /\ balOp = "none"
    /\ balScores = <<>>
    /\ balTarget = <<>>
    /\ balDistribution = [level \in {} |-> 0]
    /\ balIsBalanced = TRUE
    /\ balRecommendations = <<>>

\* getDifficultyDistribution(scores)
DistCall ==
    /\ balOp = "none"
    /\ \E scores \in ScoreLists :
        /\ balOp' = "distribution"
        /\ balScores' = scores
        /\ balTarget' = <<>>
        /\ balDistribution' = getDifficultyDistribution(scores)
        /\ balIsBalanced' = TRUE
        /\ balRecommendations' = <<>>

\* getQuestionStatistics over the stored questions
StatsCall ==
    /\ balOp = "none"
    /\ \E stored \in StoredScoreLists :
        /\ balOp' = "statistics"
        /\ balScores' = stored
        /\ balTarget' = <<>>
        /\ balDistribution' = StatisticsDistribution(stored)
        /\ balIsBalanced' = TRUE
        /\ balRecommendations' = <<>>

\* validateDifficultyBalance(scores, targetDistribution)
BalCall ==
    /\ balOp = "none"
    /\ \E scores \in ScoreLists, targetDistribution \in BalanceTargets :
        LET currentDist == getDifficultyDistribution(scores)
            target == IF Len(targetDistribution) > 0 THEN targetDistribution[1]
                      ELSE DefaultTarget
            recommendations ==
                BalanceRecommendations(currentDist, Len(scores), target, Len(Levels))
        IN  /\ balOp' = "balance"
            /\ balScores' = scores
            /\ balTarget' = targetDistribution
            /\ balDistribution' = currentDist
            /\ balIsBalanced' = (Len(recommendations) = 0)
            /\ balRecommendations' = recommendations

(***************************************************************************)
(* Two calls of calculateSimilarity, on any two pairs of texts, with the   *)
(* sub-scores each call computed kept next to its result.                  *)
(***************************************************************************)
VARIABLES
    cmbPc,      \* "idle", "first" (one call returned), "second" (both returned)
    cmbCalls    \* the returned calls, oldest first

cmbVars == <<cmbPc, cmbCalls>>

CmbInit ==
    /\ cmbPc = "idle"
    /\ cmbCalls = <<>>

\* Lines 21-26 for one call, with the oracle outcome it met.
CmbReturned(question1, question2, outcome) ==
    \E lexicalSim \in {LexicalTable[<<question1, question2>>]},
       structuralSim \in {StructuralTable[<<question1, question2>>]},
       semanticSim \in {calculateSemanticSimilarity(question1, question2, outcome)} :
        cmbCalls' = Append(cmbCalls,
            [question1 |-> question1,
             question2 |-> question2,
             lexicalSim |-> lexicalSim,
             structuralSim |-> structuralSim,
             semanticSim |-> semanticSim,
             result |-> CombineSimilarity(lexicalSim, structuralSim, semanticSim)])

CmbCall ==
    /\ cmbPc = "idle"
    /\ cmbPc' = "first"
    /\ \E question1 \in Texts, question2 \in Texts, outcome \in SimilarityOutcomes :
          CmbReturned(question1, question2, outcome)

CmbCallAgain ==
    /\ cmbPc = "first"
    /\ cmbPc' = "second"
    /\ \E question1 \in Texts, question2 \in Texts, outcome \in SimilarityOutcomes :
          CmbReturned(question1, question2, outcome)

(***************************************************************************)
(* generateQuestions as a process.  Several runs work on the same          *)
(* template and share the question storage; a run moves from one await to  *)
(* the next, so the runs interleave at the awaits.  The hosted generator,  *)
(* the Difficulty Analyzer and the storage are the environment: a storage  *)
(* call can fail, and the try block of lines 49-121 catches that.          *)
(***************************************************************************)
MaxVariants == 2

\* The concurrent calls of generateQuestions.
Callers == {1, 2}

\* The question texts the hosted generator may produce.
VariantTexts == {TextList[2], TextList[3], TextList[5]}

\* generateQuestionVariants' result: `result.questions || []`.
VariantLists == SeqsUpTo(VariantTexts, MaxVariants)

\* variant.estimatedDifficulty, as the generator states it for a text.
EstimatedDifficulty(questionText) ==
    IF questionText = TextList[5] THEN Num(15, 2) ELSE Num(3, 1)

\* options.targetDifficulty (absent or 8) and options.ensureUniqueness
\* (FALSE is `false`; TRUE is `true` or absent).
GenerationOptions ==
    [targetDifficulty : {<<>>, <<Num(8, 1)>>}, ensureUniqueness : BOOLEAN]

\* What difficultyAnalyzer.analyzeDifficulty may return.
AnalyzerScores == {Num(42, 10), Num(81, 10)}

\* The oracle outcomes considered for the comparisons of a run.
GenerationOutcomes ==
    {[kind |-> "score", value |-> One], [kind |-> "error", value |-> Zero]}

\* Line 70.
REJECT_BELOW == Dec(7)

\* Line 107.
STORE_BELOW == Num(95, 100)

VARIABLES
    gqStored,   \* the generated_questions rows of the template, oldest first
    gqChecks,   \* the similarity_checks rows, as <<question1Id, question2Id>>
    gqRuns      \* per run: its position and its local variables

gqVars == <<gqStored, gqChecks, gqRuns>>

\* A run that has not been called.
IdleRun ==
    [pc |-> "idle",
     options |-> [targetDifficulty |-> <<>>, ensureUniqueness |-> TRUE],
     variants |-> <<>>,
     k |-> 0,                    \* index of the variant in progress
     difficultyScore |-> Zero,
     uniquenessScore |-> Zero,
     existingQuestions |-> <<>>, \* the rows read at line 63
     saved |-> 0,                \* saved.id of the variant in progress
     generatedQuestionIds |-> <<>>,
     rejectedDuplicates |-> 0,
     totalDifficulty |-> Zero,
     totalUniqueness |-> Zero,
     log |-> <<>>,               \* what became of each variant
     statistics |-> <<>>]        \* the returned statistics, once returned

GqInit ==
    /\ gqStored = <<>>
    /\ gqChecks = {}
    /\ gqRuns = [r \in Callers |-> IdleRun]

\* Faulty statistics: every variant counts as generated.
GqStatisticsOfVariants(run) ==
    [generated |-> Len(run.variants),
     avgDifficulty |-> NumMul(run.totalDifficulty, Num(1, Len(run.variants))),
     avgUniqueness |-> NumMul(run.totalUniqueness, Num(1, Len(run.variants))),
     rejectedDuplicates |-> run.rejectedDuplicates]

\* Lines 124-135.
GqStatistics(run) ==
    LET generated == Len(run.generatedQuestionIds)
    IN  [generated |-> generated,
         avgDifficulty |-> IF generated > 0
                           THEN NumMul(run.totalDifficulty, Num(1, generated))
                           ELSE Zero,
         avgUniqueness |-> IF generated > 0
                           THEN NumMul(run.totalUniqueness, Num(1, generated))
                           ELSE Zero,
         rejectedDuplicates |-> run.rejectedDuplicates]

\* The first await of the loop body for a variant, by the options.
GqFirstStep(options) ==
    IF Truthy(options.targetDifficulty) THEN "analyzing"
    ELSE IF options.ensureUniqueness THEN "reading"
    ELSE "writing"

\* The loop of line 48 takes variant k: lines 51 and 61, and on to the first
\* await; or the loop has ended and the call returns.
GqTake(run, k) ==
    IF k <= Len(run.variants)
    THEN [run EXCEPT !.k = k,
                     !.pc = GqFirstStep(run.options),
                     !.difficultyScore = EstimatedDifficulty(run.variants[k]),
                     !.uniquenessScore = One,
                     !.existingQuestions = <<>>,
                     !.saved = 0]
    ELSE [run EXCEPT !.k = k,
                     !.pc = "done",
                     !.statistics = <<GqStatistics(run)>>]

\* The end of the loop body for the variant in progress (also `continue`),
\* with the entry that records what became of it.
GqNextVariant(run, fate) ==
    GqTake([run EXCEPT !.log = Append(run.log,
                [questionText |-> run.variants[run.k],
                 analyzed |-> fate.analyzed,
                 checked |-> fate.checked,
                 existing |-> run.existingQuestions,
                 saved |-> run.saved,
                 outcome |-> fate.outcome])],
           run.k + 1)

\* What is known of the variant in progress at a point of the loop body.
GqFate(run, outcome) ==
    [analyzed |-> IF Truthy(run.options.targetDifficulty) /\ run.pc # "analyzing"
                  THEN <<run.difficultyScore>> ELSE <<>>,
     checked |-> IF run.options.ensureUniqueness /\ run.pc \in {"writing", "recording"}
                 THEN <<run.uniquenessScore>> ELSE <<>>,
     outcome |-> outcome]

\* Lines 27-43: the template is found and the generator returns variants.
GqCall(r) ==
    /\ gqRuns[r].pc = "idle"
    /\ \E options \in GenerationOptions, variants \in VariantLists :
          gqRuns' = [gqRuns EXCEPT ![r] =
              GqTake([IdleRun EXCEPT !.options = options, !.variants = variants], 1)]
    /\ UNCHANGED <<gqStored, gqChecks>>

\* The call the assignment loop makes (lines 167-171): one variant, no target
\* difficulty, uniqueness ensured.
GqCallForOne(r) ==
    /\ gqRuns[r].pc = "idle"
    /\ \E questionText \in VariantTexts :
          gqRuns' = [gqRuns EXCEPT ![r] =
              GqTake([IdleRun EXCEPT !.variants = <<questionText>>], 1)]
    /\ UNCHANGED <<gqStored, gqChecks>>

\* Lines 31-33 and 36: no such template, or generateQuestionVariants throws.
GqCallFails(r) ==
    /\ gqRuns[r].pc = "idle"
    /\ gqRuns' = [gqRuns EXCEPT ![r].pc = "thrown"]
    /\ UNCHANGED <<gqStored, gqChecks>>

\* Lines 53-57: analyzeDifficulty returns (it catches its own errors).
GqAnalyzed(r) ==
    /\ gqRuns[r].pc = "analyzing"
    /\ \E score \in AnalyzerScores :
          gqRuns' = [gqRuns EXCEPT ![r].difficultyScore = score,
                                   ![r].pc = IF gqRuns[r].options.ensureUniqueness
                                             THEN "reading" ELSE "writing"]
    /\ UNCHANGED <<gqStored, gqChecks>>

\* Line 63: the rows of the template are read.
GqRead(r) ==
    /\ gqRuns[r].pc = "reading"
    /\ gqRuns' = [gqRuns EXCEPT ![r].existingQuestions = gqStored,
                                ![r].pc = "checking"]
    /\ UNCHANGED <<gqStored, gqChecks>>

\* Line 63 throws.
GqReadFails(r) ==
    /\ gqRuns[r].pc = "reading"
    /\ gqRuns' = [gqRuns EXCEPT ![r] =
                     GqNextVariant(gqRuns[r], GqFate(gqRuns[r], "failed"))]
    /\ UNCHANGED <<gqStored, gqChecks>>

\* checkUniqueness(variant.questionText, texts of the rows read), with one
\* oracle outcome per row.
GqUniqueness(questionText, existingQuestions, outcomes) ==
    IF IsEmptyCorpus(existingQuestions) THEN One
    ELSE UniquenessOf([i \in 1..Len(existingQuestions) |->
             calculateSimilarity(questionText, existingQuestions[i].questionText,
                                 outcomes[i])])

\* A faulty test: every variant passes.
NeverTooSimilar(uniquenessScore) == FALSE

\* Line 70.
TooSimilar(uniquenessScore) == NumLt(uniquenessScore, REJECT_BELOW)

\* Lines 64-73: checkUniqueness returns; the variant is rejected or kept.
GqChecked(r) ==
    /\ gqRuns[r].pc = "checking"
    /\ \E outcomes \in [1..Len(gqRuns[r].existingQuestions) -> GenerationOutcomes] :
         \E uniquenessScore \in
                {GqUniqueness(gqRuns[r].variants[gqRuns[r].k],
                              gqRuns[r].existingQuestions, outcomes)} :
            LET run == [gqRuns[r] EXCEPT !.uniquenessScore = uniquenessScore]
            IN  gqRuns' = [gqRuns EXCEPT ![r] =
                    IF TooSimilar(uniquenessScore)
                    THEN GqNextVariant(
                             [run EXCEPT !.rejectedDuplicates = run.rejectedDuplicates + 1],
                             [analyzed |-> GqFate(run, "rejected").analyzed,
                              checked |-> <<uniquenessScore>>,
                              outcome |-> "rejected"])
                    ELSE [run EXCEPT !.pc = "writing"]]
    /\ UNCHANGED <<gqStored, gqChecks>>

\* Lines 77-95: the row is written, its id is listed and the totals grow.
GqWrite(r) ==
    /\ gqRuns[r].pc = "writing"
    /\ LET run == gqRuns[r]
           id == Len(gqStored) + 1
           written == [run EXCEPT
                          !.saved = id,
                          !.generatedQuestionIds = Append(run.generatedQuestionIds, id),
                          !.totalDifficulty = NumAdd(run.totalDifficulty, run.difficultyScore),
                          !.totalUniqueness = NumAdd(run.totalUniqueness, run.uniquenessScore)]
       IN  /\ gqStored' = Append(gqStored,
                              [id |-> id,
                               run |-> r,
                               questionText |-> run.variants[run.k],
                               difficultyScore |-> run.difficultyScore,
                               uniquenessScore |-> run.uniquenessScore])
           /\ gqRuns' = [gqRuns EXCEPT ![r] =
                  IF run.options.ensureUniqueness
                  THEN [written EXCEPT !.pc = "recording"]
                  ELSE GqNextVariant(written, GqFate(run, "persisted"))]
    /\ UNCHANGED gqChecks

\* A faulty handler: an error of the write ends the whole call.
GqWriteAborts(r) ==
    /\ gqRuns[r].pc = "writing"
    /\ gqRuns' = [gqRuns EXCEPT ![r].pc = "thrown"]
    /\ UNCHANGED <<gqStored, gqChecks>>

\* Line 91 throws: no row is written.
GqWriteFails(r) ==
    /\ gqRuns[r].pc = "writing"
    /\ gqRuns' = [gqRuns EXCEPT ![r] =
                     GqNextVariant(gqRuns[r], GqFate(gqRuns[r], "failed"))]
    /\ UNCHANGED <<gqStored, gqChecks>>

\* Lines 98-116: the rows are read again and a similarity check is written
\* for every other row that is less than 0.95 similar.
GqRecorded(r) ==
    /\ gqRuns[r].pc = "recording"
    /\ \E outcomes \in [1..Len(gqStored) -> GenerationOutcomes] :
          gqChecks' = gqChecks \cup
              {<<gqRuns[r].saved, gqStored[i].id>> : i \in
                  {j \in 1..Len(gqStored) :
                      /\ gqStored[j].id # gqRuns[r].saved
                      /\ NumLt(calculateSimilarity(gqRuns[r].variants[gqRuns[r].k],
                                                   gqStored[j].questionText, outcomes[j]),
                               STORE_BELOW)}}
    /\ gqRuns' = [gqRuns EXCEPT ![r] =
                     GqNextVariant(gqRuns[r], GqFate(gqRuns[r], "persisted"))]
    /\ UNCHANGED gqStored

\* Line 99 or line 108 throws: the row of line 91 stays, and so do the id in
\* the list and the totals.
GqRecordFails(r) ==
    /\ gqRuns[r].pc = "recording"
    /\ gqRuns' = [gqRuns EXCEPT ![r] =
                     GqNextVariant(gqRuns[r], GqFate(gqRuns[r], "persisted, then failed"))]
    /\ UNCHANGED <<gqStored, gqChecks>>

(***************************************************************************)
(* generateQuestionsForAssignment as a process.  Each generateQuestions    *)
(* call of line 167 is taken as a whole: it writes some question rows with *)
(* new ids and returns their ids, or it throws.                            *)
(***************************************************************************)
MaxStudents == 2

MaxPerStudent == 2

\* The students that may be named in studentIds.
StudentIds == {"s1", "s2"}

\* The studentIds argument; the route only requires an array.
StudentIdLists == SeqsUpTo(StudentIds, MaxStudents)

\* templates.length: the number of active templates of the subject.
TemplateCounts == {0, 1, 2}

\* How many rows one generateQuestions call may write: the generator is
\* asked for one variant and may return none or more than one, and a variant
\* may be rejected or fail.
RowsPerCall == {0, 1, 2}

VARIABLES
    gaRun,        \* position and local variables of the call
    gaQuestions,  \* the generated_questions rows written, as template indexes
    gaRecords     \* the student_assignments rows written

gaVars == <<gaRun, gaQuestions, gaRecords>>

GaIdle ==
    [pc |-> "idle",
     assignmentFound |-> FALSE,
     templates |-> 0,            \* templates.length
     studentIds |-> <<>>,
     questionsPerStudent |-> 0,
     s |-> 0,                    \* index of studentId in studentIds
     i |-> 0,
     studentQuestionIds |-> <<>>,
     studentQuestions |-> <<>>,  \* the Map, as a function on its keys
     calls |-> <<>>]             \* the templates of the generateQuestions calls

GaInit ==
    /\ gaRun = GaIdle
    /\ gaQuestions = <<>>
    /\ gaRecords = <<>>

\* Map.prototype.set.
MapSet(map, key, value) ==
    [k \in DOMAIN map \cup {key} |-> IF k = key THEN value ELSE map[k]]

\* The empty Map.
EmptyMap == [k \in {} |-> <<>>]

\* The loops of lines 160 and 164 at student s and question i: the next
\* generateQuestions call, or the end of a student's questions (line 187),
\* or the return of line 190.
RECURSIVE GaLoop(_, _, _)
GaLoop(run, s, i) ==
    IF s > Len(run.studentIds)
    THEN [run EXCEPT !.pc = "returned", !.s = s, !.i = i]
    ELSE IF i < run.questionsPerStudent
         THEN [run EXCEPT !.pc = "generating", !.s = s, !.i = i,
                          !.calls = Append(run.calls, (i % run.templates) + 1)]
         ELSE GaLoop([run EXCEPT !.studentQuestions =
                          MapSet(run.studentQuestions, run.studentIds[s],
                                 run.studentQuestionIds),
                                 !.studentQuestionIds = <<>>],
                     s + 1, 0)

\* Lines 138-145: the call, up to the read of the assignments.
GaCall ==
    /\ gaRun.pc = "idle"
    /\ \E assignmentFound \in BOOLEAN, templates \in TemplateCounts,
          studentIds \in StudentIdLists, questionsPerStudent \in 0..MaxPerStudent :
          gaRun' = [GaIdle EXCEPT !.pc = "assignment",
                                  !.assignmentFound = assignmentFound,
                                  !.templates = templates,
                                  !.studentIds = studentIds,
                                  !.questionsPerStudent = questionsPerStudent,
                                  !.studentQuestions = EmptyMap]
    /\ UNCHANGED <<gaQuestions, gaRecords>>

\* Lines 143-149.
GaAssignmentRead ==
    /\ gaRun.pc = "assignment"
    /\ gaRun' = [gaRun EXCEPT !.pc = IF gaRun.assignmentFound
                                     THEN "templates" ELSE "thrown"]
    /\ UNCHANGED <<gaQuestions, gaRecords>>

\* Lines 152-158, and on to the first generateQuestions call.
GaTemplatesRead ==
    /\ gaRun.pc = "templates"
    /\ gaRun' = IF gaRun.templates = 0
                THEN [gaRun EXCEPT !.pc = "thrown"]
                ELSE GaLoop(gaRun, 1, 0)
    /\ UNCHANGED <<gaQuestions, gaRecords>>

\* The id of the k-th row that a call writes after the rows given.
NewId(questions, k) == Len(questions) + k

\* Lines 167-175: generateQuestions returns the ids of the rows it wrote; the
\* first one, if any, is the student's question.
GaGenerated ==
    /\ gaRun.pc = "generating"
    /\ \E rows \in RowsPerCall :
          LET template == gaRun.calls[Len(gaRun.calls)]
              generatedQuestions == [k \in 1..rows |-> NewId(gaQuestions, k)]
          IN  /\ gaQuestions' = gaQuestions \o [k \in 1..rows |-> template]
              /\ gaRun' =
                    IF Len(generatedQuestions) > 0
                    THEN [gaRun EXCEPT !.pc = "assigning",
                                       !.studentQuestionIds =
                                           Append(gaRun.studentQuestionIds,
                                                  generatedQuestions[1])]
                    ELSE GaLoop(gaRun, gaRun.s, gaRun.i + 1)
    /\ UNCHANGED gaRecords

\* Line 167 throws (questionGenerator.ts lines 31-33 or 36).
GaGenerateFails ==
    /\ gaRun.pc = "generating"
    /\ gaRun' = [gaRun EXCEPT !.pc = "thrown"]
    /\ UNCHANGED <<gaQuestions, gaRecords>>

\* A faulty step: the question is listed and no record is created.
GaAssignedWithoutRecord ==
    /\ gaRun.pc = "assigning"
    /\ gaRun' = GaLoop(gaRun, gaRun.s, gaRun.i + 1)
    /\ UNCHANGED <<gaQuestions, gaRecords>>

\* Lines 178-183: the student assignment record is created.
GaAssigned ==
    /\ gaRun.pc = "assigning"
    /\ gaRecords' = Append(gaRecords,
                       [studentId |-> gaRun.studentIds[gaRun.s],
                        questionId |-> gaRun.studentQuestionIds[Len(gaRun.studentQuestionIds)],
                        status |-> "assigned"])
    /\ gaRun' = GaLoop(gaRun, gaRun.s, gaRun.i + 1)
    /\ UNCHANGED gaQuestions

\* Line 178 throws.
GaAssignFails ==
    /\ gaRun.pc = "assigning"
    /\ gaRun' = [gaRun EXCEPT !.pc = "thrown"]
    /\ UNCHANGED <<gaQuestions, gaRecords>>

(***************************************************************************)
(* Specifications.                                                         *)
(***************************************************************************)
vars == <<simVars, uqVars, dfVars, vqVars, ipVars, levVars, balVars, cmbVars,
         gqVars, gaVars>>

AllInit ==
    /\ SimInit
    /\ UqInit
    /\ DfInit
    /\ VqInit
    /\ IpInit
    /\ LevInit
    /\ BalInit
    /\ CmbInit
    /\ GqInit
    /\ GaInit

\* calculateSimilarity alone.
SimSpecNext ==
    \/ SimCall /\ UNCHANGED
           <<uqVars, dfVars, vqVars, ipVars, levVars, balVars, cmbVars, gqVars, gaVars>>
    \/ SimCallSwapped /\ UNCHANGED
           <<uqVars, dfVars, vqVars, ipVars, levVars, balVars, cmbVars, gqVars, gaVars>>
    \/ SimOracleScores /\ UNCHANGED
           <<uqVars, dfVars, vqVars, ipVars, levVars, balVars, cmbVars, gqVars, gaVars>>
    \/ SimOracleNoScore /\ UNCHANGED
           <<uqVars, dfVars, vqVars, ipVars, levVars, balVars, cmbVars, gqVars, gaVars>>
    \/ SimOracleError /\ UNCHANGED
           <<uqVars, dfVars, vqVars, ipVars, levVars, balVars, cmbVars, gqVars, gaVars>>
    \/ SimOracleUnloadable /\ UNCHANGED
           <<uqVars, dfVars, vqVars, ipVars, levVars, balVars, cmbVars, gqVars, gaVars>>

SpecSim == AllInit /\ [][SimSpecNext]_vars

\* checkUniqueness alone.
UqSpecNext ==
    \/ UqCall /\ UNCHANGED
           <<simVars, dfVars, vqVars, ipVars, levVars, balVars, cmbVars, gqVars, gaVars>>
    \/ UqImportResolves /\ UNCHANGED
           <<simVars, dfVars, vqVars, ipVars, levVars, balVars, cmbVars, gqVars, gaVars>>
    \/ UqImportRejects /\ UNCHANGED
           <<simVars, dfVars, vqVars, ipVars, levVars, balVars, cmbVars, gqVars, gaVars>>
    \/ UqOracleScores /\ UNCHANGED
           <<simVars, dfVars, vqVars, ipVars, levVars, balVars, cmbVars, gqVars, gaVars>>
    \/ UqOracleNoScore /\ UNCHANGED
           <<simVars, dfVars, vqVars, ipVars, levVars, balVars, cmbVars, gqVars, gaVars>>
    \/ UqOracleError /\ UNCHANGED
           <<simVars, dfVars, vqVars, ipVars, levVars, balVars, cmbVars, gqVars, gaVars>>

SpecUniq == AllInit /\ [][UqSpecNext]_vars

\* analyzeDifficulty alone.
DfSpecNext ==
    \/ DfCall /\ UNCHANGED
           <<simVars, uqVars, vqVars, ipVars, levVars, balVars, cmbVars, gqVars, gaVars>>
    \/ DfOracleScores /\ UNCHANGED
           <<simVars, uqVars, vqVars, ipVars, levVars, balVars, cmbVars, gqVars, gaVars>>
    \/ DfOracleNoScore /\ UNCHANGED
           <<simVars, uqVars, vqVars, ipVars, levVars, balVars, cmbVars, gqVars, gaVars>>
    \/ DfOracleError /\ UNCHANGED
           <<simVars, uqVars, vqVars, ipVars, levVars, balVars, cmbVars, gqVars, gaVars>>

SpecDiff == AllInit /\ [][DfSpecNext]_vars

\* validateQuestionSet alone.
VqSpecNext ==
    \/ VqCall /\ UNCHANGED
           <<simVars, uqVars, dfVars, ipVars, levVars, balVars, cmbVars, gqVars, gaVars>>
    \/ VqImportResolves /\ UNCHANGED
           <<simVars, uqVars, dfVars, ipVars, levVars, balVars, cmbVars, gqVars, gaVars>>
    \/ VqImportRejects /\ UNCHANGED
           <<simVars, uqVars, dfVars, ipVars, levVars, balVars, cmbVars, gqVars, gaVars>>
    \/ VqOracleScores /\ UNCHANGED
           <<simVars, uqVars, dfVars, ipVars, levVars, balVars, cmbVars, gqVars, gaVars>>
    \/ VqOracleError /\ UNCHANGED
           <<simVars, uqVars, dfVars, ipVars, levVars, balVars, cmbVars, gqVars, gaVars>>

SpecSet == AllInit /\ [][VqSpecNext]_vars

\* identifyPlagiarism alone.
IpSpecNext ==
    \/ IpCall /\ UNCHANGED
           <<simVars, uqVars, dfVars, vqVars, levVars, balVars, cmbVars, gqVars, gaVars>>
    \/ IpImportResolves /\ UNCHANGED
           <<simVars, uqVars, dfVars, vqVars, levVars, balVars, cmbVars, gqVars, gaVars>>
    \/ IpImportRejects /\ UNCHANGED
           <<simVars, uqVars, dfVars, vqVars, levVars, balVars, cmbVars, gqVars, gaVars>>
    \/ IpOracleScores /\ UNCHANGED
           <<simVars, uqVars, dfVars, vqVars, levVars, balVars, cmbVars, gqVars, gaVars>>
    \/ IpOracleError /\ UNCHANGED
           <<simVars, uqVars, dfVars, vqVars, levVars, balVars, cmbVars, gqVars, gaVars>>

SpecPlag == AllInit /\ [][IpSpecNext]_vars

\* levenshteinDistance alone.
LevSpecNext ==
    \/ LevCall /\ UNCHANGED
           <<simVars, uqVars, dfVars, vqVars, ipVars, balVars, cmbVars, gqVars, gaVars>>
    \/ LevReturn /\ UNCHANGED
           <<simVars, uqVars, dfVars, vqVars, ipVars, balVars, cmbVars, gqVars, gaVars>>

SpecLev == AllInit /\ [][LevSpecNext]_vars

\* getDifficultyDistribution, getQuestionStatistics and validateDifficultyBalance.
BalSpecNext ==
    \/ BalCall /\ UNCHANGED
           <<simVars, uqVars, dfVars, vqVars, ipVars, levVars, cmbVars, gqVars, gaVars>>
    \/ DistCall /\ UNCHANGED
           <<simVars, uqVars, dfVars, vqVars, ipVars, levVars, cmbVars, gqVars, gaVars>>
    \/ StatsCall /\ UNCHANGED
           <<simVars, uqVars, dfVars, vqVars, ipVars, levVars, cmbVars, gqVars, gaVars>>

SpecBal == AllInit /\ [][BalSpecNext]_vars

\* Two calls of calculateSimilarity.
CmbSpecNext ==
    \/ CmbCall /\ UNCHANGED
           <<simVars, uqVars, dfVars, vqVars, ipVars, levVars, balVars, gqVars, gaVars>>
    \/ CmbCallAgain /\ UNCHANGED
           <<simVars, uqVars, dfVars, vqVars, ipVars, levVars, balVars, gqVars, gaVars>>

SpecCombine == AllInit /\ [][CmbSpecNext]_vars

\* One run of generateQuestions on a template without questions.
GenSpecNext ==
    \/ GqCall(1) /\ UNCHANGED
           <<simVars, uqVars, dfVars, vqVars, ipVars, levVars, balVars, cmbVars, gaVars>>
    \/ GqCallFails(1) /\ UNCHANGED
           <<simVars, uqVars, dfVars, vqVars, ipVars, levVars, balVars, cmbVars, gaVars>>
    \/ GqAnalyzed(1) /\ UNCHANGED
           <<simVars, uqVars, dfVars, vqVars, ipVars, levVars, balVars, cmbVars, gaVars>>
    \/ GqRead(1) /\ UNCHANGED
           <<simVars, uqVars, dfVars, vqVars, ipVars, levVars, balVars, cmbVars, gaVars>>
    \/ GqReadFails(1) /\ UNCHANGED
           <<simVars, uqVars, dfVars, vqVars, ipVars, levVars, balVars, cmbVars, gaVars>>
    \/ GqChecked(1) /\ UNCHANGED
           <<simVars, uqVars, dfVars, vqVars, ipVars, levVars, balVars, cmbVars, gaVars>>
    \/ GqWrite(1) /\ UNCHANGED
           <<simVars, uqVars, dfVars, vqVars, ipVars, levVars, balVars, cmbVars, gaVars>>
    \/ GqWriteFails(1) /\ UNCHANGED
           <<simVars, uqVars, dfVars, vqVars, ipVars, levVars, balVars, cmbVars, gaVars>>
    \/ GqRecorded(1) /\ UNCHANGED
           <<simVars, uqVars, dfVars, vqVars, ipVars, levVars, balVars, cmbVars, gaVars>>
    \/ GqRecordFails(1) /\ UNCHANGED
           <<simVars, uqVars, dfVars, vqVars, ipVars, levVars, balVars, cmbVars, gaVars>>

SpecGen == AllInit /\ [][GenSpecNext]_vars

\* Two runs of generateQuestions on the same template, one variant each.
RaceSpecNext ==
    \/ (\E r \in Callers : GqCallForOne(r)) /\ UNCHANGED
           <<simVars, uqVars, dfVars, vqVars, ipVars, levVars, balVars, cmbVars, gaVars>>
    \/ (\E r \in Callers : GqRead(r)) /\ UNCHANGED
           <<simVars, uqVars, dfVars, vqVars, ipVars, levVars, balVars, cmbVars, gaVars>>
    \/ (\E r \in Callers : GqChecked(r)) /\ UNCHANGED
           <<simVars, uqVars, dfVars, vqVars, ipVars, levVars, balVars, cmbVars, gaVars>>
    \/ (\E r \in Callers : GqWrite(r)) /\ UNCHANGED
           <<simVars, uqVars, dfVars, vqVars, ipVars, levVars, balVars, cmbVars, gaVars>>
    \/ (\E r \in Callers : GqRecorded(r)) /\ UNCHANGED
           <<simVars, uqVars, dfVars, vqVars, ipVars, levVars, balVars, cmbVars, gaVars>>

SpecGenRace == AllInit /\ [][RaceSpecNext]_vars

\* generateQuestionsForAssignment alone.
GaSpecNext ==
    \/ GaCall /\ UNCHANGED
           <<simVars, uqVars, dfVars, vqVars, ipVars, levVars, balVars, cmbVars, gqVars>>
    \/ GaAssignmentRead /\ UNCHANGED
           <<simVars, uqVars, dfVars, vqVars, ipVars, levVars, balVars, cmbVars, gqVars>>
    \/ GaTemplatesRead /\ UNCHANGED
           <<simVars, uqVars, dfVars, vqVars, ipVars, levVars, balVars, cmbVars, gqVars>>
    \/ GaGenerated /\ UNCHANGED
           <<simVars, uqVars, dfVars, vqVars, ipVars, levVars, balVars, cmbVars, gqVars>>
    \/ GaGenerateFails /\ UNCHANGED
           <<simVars, uqVars, dfVars, vqVars, ipVars, levVars, balVars, cmbVars, gqVars>>
    \/ GaAssigned /\ UNCHANGED
           <<simVars, uqVars, dfVars, vqVars, ipVars, levVars, balVars, cmbVars, gqVars>>
    \/ GaAssignFails /\ UNCHANGED
           <<simVars, uqVars, dfVars, vqVars, ipVars, levVars, balVars, cmbVars, gqVars>>

SpecAssign == AllInit /\ [][GaSpecNext]_vars

\* One run of validateQuestionSet or of identifyPlagiarism.
PairsSpecNext ==
    \/ (ipPc = "idle" /\ VqCall) /\ UNCHANGED
           <<simVars, uqVars, dfVars, ipVars, levVars, balVars, cmbVars, gqVars, gaVars>>
    \/ VqImportResolves /\ UNCHANGED
           <<simVars, uqVars, dfVars, ipVars, levVars, balVars, cmbVars, gqVars, gaVars>>
    \/ VqImportRejects /\ UNCHANGED
           <<simVars, uqVars, dfVars, ipVars, levVars, balVars, cmbVars, gqVars, gaVars>>
    \/ VqOracleScores /\ UNCHANGED
           <<simVars, uqVars, dfVars, ipVars, levVars, balVars, cmbVars, gqVars, gaVars>>
    \/ VqOracleError /\ UNCHANGED
           <<simVars, uqVars, dfVars, ipVars, levVars, balVars, cmbVars, gqVars, gaVars>>
    \/ (vqPc = "idle" /\ IpCall) /\ UNCHANGED
           <<simVars, uqVars, dfVars, vqVars, levVars, balVars, cmbVars, gqVars, gaVars>>
    \/ IpImportResolves /\ UNCHANGED
           <<simVars, uqVars, dfVars, vqVars, levVars, balVars, cmbVars, gqVars, gaVars>>
    \/ IpImportRejects /\ UNCHANGED
           <<simVars, uqVars, dfVars, vqVars, levVars, balVars, cmbVars, gqVars, gaVars>>
    \/ IpOracleScores /\ UNCHANGED
           <<simVars, uqVars, dfVars, vqVars, levVars, balVars, cmbVars, gqVars, gaVars>>
    \/ IpOracleError /\ UNCHANGED
           <<simVars, uqVars, dfVars, vqVars, levVars, balVars, cmbVars, gqVars, gaVars>>

SpecPairs == AllInit /\ [][PairsSpecNext]_vars

(***************************************************************************)
(* Properties of calculateSimilarity (SpecSim).                            *)
(***************************************************************************)

\* C1: every value calculateSimilarity returns lies in [0,1], whatever the
\* semantic oracle did.
C1_SimilarityInUnitInterval ==
    \A k \in 1..Len(simLog) : InRange(simLog[k].result, Zero, One)

\* C2: calculateSimilarity(t, t) is exactly 1.0 for every non-empty text t,
\* whether the semantic oracle answers or fails.
C2_Reflexive ==
    \A k \in 1..Len(simLog) :
        (simLog[k].question1 = simLog[k].question2 /\ simLog[k].question1 # <<>>)
            => simLog[k].result = One

\* C3: calculateSimilarity(a, b) = calculateSimilarity(b, a), and each of the
\* three sub-scores is unchanged when the two arguments are swapped.
C3_Symmetric ==
    Len(simLog) = 2 =>
        /\ simLog[1].result = simLog[2].result
        /\ simLog[1].lexicalSim = simLog[2].lexicalSim
        /\ simLog[1].structuralSim = simLog[2].structuralSim
        /\ simLog[1].semanticSim = simLog[2].semanticSim

(***************************************************************************)
(* Properties of checkUniqueness (SpecUniq).                               *)
(***************************************************************************)

\* What comparison i of the finished run returned, recomputed from the
\* candidate, corpus member i and the oracle outcome of that comparison.
UqSimilarityOf(i) == calculateSimilarity(uqCandidate, uqCorpus[i], uqOutcome[i])

\* C4: for a non-empty corpus the result is max(0, 1 - m), m the maximum of
\* the similarities to the corpus members, and it lies in [0,1].
C4_UniquenessIsOneMinusMax ==
    (uqPc = "done" /\ Len(uqCorpus) > 0) =>
        LET S == {UqSimilarityOf(i) : i \in 1..Len(uqCorpus)}
        IN  /\ InRange(uqResult, Zero, One)
            /\ \E m \in S :
                  /\ \A s \in S : NumLe(s, m)
                  /\ uqResult = MathMax2(Zero, NumSub(One, m))

\* C5: on an empty corpus checkUniqueness returns 1.0 and has computed no
\* similarity and called the oracle not once.
C5_EmptyCorpusLaw ==
    (uqPc = "done" /\ uqCorpus = <<>>) =>
        /\ uqResult = One
        /\ uqSimilarities = <<>>
        /\ uqOrder = <<>>
        /\ uqOracleCalls = 0

C5_Witness ==
    /\ uqPc = "done"
    /\ uqCorpus = <<>>
    /\ uqCandidate # <<>>
    /\ uqResult = One

\* C6: the result is the one every permutation of the corpus gives (each
\* member keeping the similarity its comparison returned), in whatever
\* order the comparisons settled.
C6_OrderIndependent ==
    (uqPc = "done" /\ Len(uqCorpus) > 0) =>
        \A p \in Permutations(1..Len(uqCorpus)) :
            UniquenessOf([i \in 1..Len(uqCorpus) |-> UqSimilarityOf(p[i])]) = uqResult

\* Two comparisons that returned different similarities and settled in the
\* reverse of the corpus order.
C6_Witness ==
    /\ uqPc = "done"
    /\ Len(uqCorpus) >= 2
    /\ uqOrder[1] = 2
    /\ uqSimilarities[1] # uqSimilarities[2]
    /\ ~IsNaN(uqSimilarities[1])
    /\ NumLt(uqSimilarities[1], uqSimilarities[2])
    /\ uqResult = NumSub(One, uqSimilarities[2])

\* The corpus members whose comparison is in the given phase.
UqInPhase(phase) == {i \in 1..Len(uqCmp) : uqCmp[i] = phase}

\* The oracle calls of this run that have returned.
UqReturnedCalls ==
    Cardinality({i \in UqInPhase("done") : uqOutcome[i].kind # "unloadable"})

\* C26 (as the code has it): checkUniqueness on a corpus of n > 0 strings
\* starts all n comparisons before any of them completes and applies no
\* concurrency limit, so up to n oracle calls are in flight at once; it makes
\* at most one oracle call per corpus member, one for each member whose
\* import of the oracle module resolves and none for the others, and it
\* returns only after all n comparisons have completed, however high a
\* similarity that has already come back is.
C26_AllStartedAtMostOneCallEach ==
    (uqPc # "idle" /\ Len(uqCorpus) > 0) =>
        LET n == Len(uqCorpus)
        IN  /\ Len(uqCmp) = n
            /\ \A i \in 1..n : uqCmp[i] \in {"importing", "calling", "done"}
            /\ uqOracleCalls - UqReturnedCalls = Cardinality(UqInPhase("calling"))
            /\ uqOracleCalls <= n
            /\ Len(uqOrder) = Cardinality(UqInPhase("done"))
            /\ (uqPc = "done") <=> (UqInPhase("done") = 1..n)
            /\ (uqPc = "awaiting") <=> (UqInPhase("done") # 1..n)
            /\ uqPc = "done" => uqOracleCalls = UqReturnedCalls

\* n = MaxCorpus oracle calls in flight at once, none of them returned.
C26_Witness ==
    /\ uqPc = "awaiting"
    /\ Len(uqCorpus) = MaxCorpus
    /\ UqInPhase("calling") = 1..MaxCorpus
    /\ uqOracleCalls = MaxCorpus

\* C26 (as stated): the above, with exactly one oracle call per corpus
\* member.
C26_ExactlyOneCallEach ==
    (uqPc = "done" /\ Len(uqCorpus) > 0) =>
        /\ UqInPhase("done") = 1..Len(uqCorpus)
        /\ uqOracleCalls = Len(uqCorpus)

(***************************************************************************)
(* Properties of analyzeDifficulty (SpecDiff).                             *)
(***************************************************************************)

C8_FailureReturnsTargetOrDefault ==
    (dfPc = "done" /\ dfOutcome.kind = "error") =>
        dfResult = DifficultyFallback(dfTarget)

\* C9: with a target t in [1,10] the score before rounding lies between the
\* blended score b and t, does not decrease when t grows, and is in [1,10].
C9_TargetBias ==
    (dfPc = "done" /\ Truthy(dfTarget)
        /\ InRange(dfTarget[1], MinDifficulty, MaxDifficulty)) =>
        LET t == dfTarget[1]
        IN  /\ \/ NumLe(dfBlend, dfFinal) /\ NumLe(dfFinal, t)
               \/ NumLe(t, dfFinal) /\ NumLe(dfFinal, dfBlend)
            /\ InRange(dfFinal, MinDifficulty, MaxDifficulty)
            /\ \A u \in TargetValues :
                  InRange(u, MinDifficulty, MaxDifficulty) =>
                      /\ NumLe(t, u) => NumLe(dfFinal, PullTowardTarget(dfBlend, u))
                      /\ NumLe(u, t) => NumLe(PullTowardTarget(dfBlend, u), dfFinal)

\* A blended score of 8.2 pulled down toward the target 5.5.
C9_Witness ==
    /\ dfPc = "done"
    /\ dfTarget = <<Num(11, 2)>>
    /\ NumLt(dfTarget[1], dfFinal)
    /\ NumLt(dfFinal, dfBlend)

\* Whether r is x rounded to one decimal place: a multiple of 0.1 at most
\* 0.05 away from x.
IsRoundedToTenth(r, x) ==
    /\ IsFinite(r)
    /\ IsFinite(x)
    /\ (10 * r.n) % r.d = 0
    /\ 2 * Abs(10 * r.n * x.d - 10 * x.n * r.d) <= r.d * x.d

\* C23: every value analyzeDifficulty returns is a multiple of 0.1; when the
\* oracle returns aiScore and no target is supplied, the value is
\* 0.7 aiScore + 0.3 ruleScore rounded to one decimal place, where ruleScore
\* is the rule-based sum clamped to [1,10].
C23_RoundedBlend ==
    dfPc = "done" =>
        /\ IsFinite(dfResult)
        /\ (10 * dfResult.n) % dfResult.d = 0
        /\ (dfOutcome.kind = "score" /\ dfTarget = <<>>) =>
              LET aiScore == dfOutcome.value
                  ruleScore == applyRuleBasedScoring(dfQuestion)
                  blend == [n |-> 7 * aiScore.n * ruleScore.d + 3 * ruleScore.n * aiScore.d,
                            d |-> 10 * aiScore.d * ruleScore.d]
              IN  /\ InRange(ruleScore, Num(1, 1), Num(10, 1))
                  /\ IsRoundedToTenth(dfResult, blend)

\* A call without a target whose oracle answered 7.5 and whose blend had
\* more than one decimal place.
C23_Witness ==
    /\ dfPc = "done"
    /\ dfTarget = <<>>
    /\ dfOutcome = [kind |-> "score", value |-> Num(15, 2)]
    /\ dfResult # dfBlend

(***************************************************************************)
(* Properties of validateQuestionSet (SpecSet).                            *)
(***************************************************************************)

\* The index pairs i < j of the set, in the order of the two loops.
RECURSIVE PairsFrom(_, _, _)
PairsFrom(i, j, n) ==
    IF i >= n - 1 THEN <<>>
    ELSE IF j >= n THEN PairsFrom(i + 1, i + 2, n)
    ELSE <<<<i, j>>>> \o PairsFrom(i, j + 1, n)

\* C10: the duplicates list holds exactly one entry (i, j, similarity) for
\* each pair i < j whose similarity is strictly greater than 0.9 and no
\* other entry; a similarity of exactly 0.9 is no duplicate.
C10_DuplicatesExact ==
    vqPc = "done" =>
        LET pairs == PairsFrom(0, 1, Len(vqQuestions))
        IN  /\ Len(vqLog) = Len(pairs)
            /\ \A k \in 1..Len(pairs) :
                  /\ vqLog[k].i = pairs[k][1]
                  /\ vqLog[k].j = pairs[k][2]
                  /\ vqLog[k].similarity =
                         calculateSimilarity(vqQuestions[vqLog[k].i + 1],
                                             vqQuestions[vqLog[k].j + 1],
                                             vqLog[k].outcome)
                  /\ Cardinality({d \in 1..Len(vqDuplicates) :
                                     /\ vqDuplicates[d].question1 = vqLog[k].i
                                     /\ vqDuplicates[d].question2 = vqLog[k].j
                                     /\ vqDuplicates[d].similarity = vqLog[k].similarity})
                        = (IF NumGt(vqLog[k].similarity, Dec(9)) THEN 1 ELSE 0)
            /\ \A d \in 1..Len(vqDuplicates) :
                  \E k \in 1..Len(vqLog) :
                      /\ vqDuplicates[d].question1 = vqLog[k].i
                      /\ vqDuplicates[d].question2 = vqLog[k].j
                      /\ vqDuplicates[d].similarity = vqLog[k].similarity

\* A set of three with one pair above 0.9, one at exactly 0.9 and one
\* below: only the first is listed.
C10_Witness ==
    /\ vqPc = "done"
    /\ Len(vqQuestions) = 3
    /\ Len(vqDuplicates) = 1
    /\ \E k \in 1..3 : vqLog[k].similarity = Dec(9)
    /\ \E k \in 1..3 : NumLt(vqLog[k].similarity, Dec(9))
    /\ NumGt(vqDuplicates[1].similarity, Dec(9))

\* The mean of 1 - similarity over the comparisons the run made.
RECURSIVE SumOfLoggedUniqueness(_)
SumOfLoggedUniqueness(k) ==
    IF k = 0 THEN Zero
    ELSE NumAdd(SumOfLoggedUniqueness(k - 1), NumSub(One, vqLog[k].similarity))

\* C11: isValid is true exactly when the duplicates list is empty and
\* avgUniqueness >= 0.7, where avgUniqueness is the mean of 1 - similarity
\* over all pairs i < j, and 1.0 for a set of fewer than two questions, which
\* is therefore always valid.
C11_ValidIffNoDuplicatesAndUnique ==
    vqPc = "done" =>
        LET n == Len(vqQuestions)
            pairs == (n * (n - 1)) \div 2
        IN  /\ Len(vqLog) = pairs
            /\ vqAvgUniqueness =
                  (IF n < 2 THEN One
                   ELSE NumMul(SumOfLoggedUniqueness(pairs), Num(1, pairs)))
            /\ vqIsValid = (Len(vqDuplicates) = 0 /\ NumGe(vqAvgUniqueness, Dec(7)))
            /\ (n < 2 => vqIsValid)

\* A set of three questions compared pair by pair and found valid, with an
\* average below 1.
C11_Witness ==
    /\ vqPc = "done"
    /\ Len(vqQuestions) = 3
    /\ Len(vqLog) = 3
    /\ vqIsValid
    /\ NumLt(vqAvgUniqueness, One)

\* C12: whenever two entries at indices i < j of a question set hold the
\* same non-empty text, validateQuestionSet lists the pair (i, j) as a
\* duplicate with similarity > 0.9 and returns isValid = false, whether the
\* oracle answers or fails.
C12_IdenticalQuestionsFlagged ==
    vqPc = "done" =>
        \A a, b \in 1..Len(vqQuestions) :
            (a < b /\ vqQuestions[a] = vqQuestions[b] /\ Len(vqQuestions[a]) > 0) =>
                /\ \E d \in 1..Len(vqDuplicates) :
                      /\ vqDuplicates[d].question1 = a - 1
                      /\ vqDuplicates[d].question2 = b - 1
                      /\ NumGt(vqDuplicates[d].similarity, Dec(9))
                /\ ~vqIsValid

(***************************************************************************)
(* Properties of identifyPlagiarism (SpecPlag).                            *)
(***************************************************************************)

\* C13: identifyPlagiarism returns exactly one entry for each pair i < j
\* whose similarity is strictly greater than 0.7, with the two student ids
\* and the similarity; the entry is high iff similarity > 0.9 and medium iff
\* 0.7 < similarity <= 0.9; no low entry is returned.
C13_PlagiarismTiers ==
    ipPc = "done" =>
        LET pairs == PairsFrom(0, 1, Len(ipAnswers))
            Entries(k) == {c \in 1..Len(ipChecks) :
                              /\ ipChecks[c].student1 = ipAnswers[ipLog[k].i + 1].studentId
                              /\ ipChecks[c].student2 = ipAnswers[ipLog[k].j + 1].studentId}
        IN  /\ Len(ipLog) = Len(pairs)
            /\ \A k \in 1..Len(pairs) :
                  /\ <<ipLog[k].i, ipLog[k].j>> = pairs[k]
                  /\ ipLog[k].similarity =
                         calculateSimilarity(ipAnswers[ipLog[k].i + 1].answer,
                                             ipAnswers[ipLog[k].j + 1].answer,
                                             ipLog[k].outcome)
                  /\ Cardinality(Entries(k)) =
                         (IF NumGt(ipLog[k].similarity, Dec(7)) THEN 1 ELSE 0)
                  /\ \A c \in Entries(k) :
                        /\ ipChecks[c].similarity = ipLog[k].similarity
                        /\ ipChecks[c].riskLevel = "high"
                              <=> NumGt(ipLog[k].similarity, Dec(9))
                        /\ ipChecks[c].riskLevel = "medium"
                              <=> (NumGt(ipLog[k].similarity, Dec(7))
                                   /\ NumLe(ipLog[k].similarity, Dec(9)))
            /\ \A c \in 1..Len(ipChecks) :
                  /\ ipChecks[c].riskLevel \in {"medium", "high"}
                  /\ \E k \in 1..Len(ipLog) : c \in Entries(k)

\* Three submissions with one pair high, one pair medium at exactly 0.9 and
\* one pair left out.
C13_Witness ==
    /\ ipPc = "done"
    /\ Len(ipAnswers) = 3
    /\ Len(ipChecks) = 2
    /\ \E c \in 1..2 : ipChecks[c].riskLevel = "high"
    /\ \E c \in 1..2 : ipChecks[c].riskLevel = "medium" /\ ipChecks[c].similarity = Dec(9)
    /\ \E k \in 1..3 : NumLe(ipLog[k].similarity, Dec(7))

(***************************************************************************)
(* Oracle failures and degenerate inputs in calculateSimilarity (SpecSim). *)
(***************************************************************************)

\* C14: unavailability of the semantic oracle (a failed request, a malformed
\* response, a module that does not load) never surfaces: the call of
\* calculateSimilarity, through which checkUniqueness, validateQuestionSet
\* and identifyPlagiarism reach the oracle, never rejects, and every call
\* that has got its oracle outcome has returned a result.
C14_OracleFailureNeverSurfaces ==
    /\ simPc # "rejected"
    /\ simPc \in {"idle", "semantic", "done"}
    /\ simPc = "done" => /\ Len(simLog) \in {1, 2}
                         /\ simLog[Len(simLog)].question1 = simArgs[1]
                         /\ simLog[Len(simLog)].question2 = simArgs[2]

\* Two calls completed, one after a failed oracle request and one after a
\* failed import.
C14_Witness ==
    /\ simPc = "done"
    /\ Len(simLog) = 2
    /\ simLog[1].outcome.kind = "error"
    /\ simLog[2].outcome.kind = "unloadable"

\* C15: when the semantic oracle fails, the semantic sub-score is the Jaccard
\* index of the two concept sets (1.0 when both are empty, 0.0 when exactly
\* one is), not a constant default.
C15_FailureFallsBackToConcepts ==
    \A k \in 1..Len(simLog) :
        simLog[k].outcome.kind \in {"error", "unloadable"} =>
            simLog[k].semanticSim =
                ConceptSimilarity(simLog[k].question1, simLog[k].question2)

\* C16: no score is undefined: the lexical sub-score is 1.0 when both token
\* sets are empty, the structural sub-score is 1.0 when both skeletons are
\* empty, and calculateSimilarity returns a defined number for every pair.
C16_NoUndefinedScore ==
    \A k \in 1..Len(simLog) :
        LET r == simLog[k]
        IN  /\ (tokenize(r.question1) = {} /\ tokenize(r.question2) = {})
                  => r.lexicalSim = One
            /\ (Len(extractStructure(r.question1)) = 0
                  /\ Len(extractStructure(r.question2)) = 0)
                  => r.structuralSim = One
            /\ ~IsNaN(r.lexicalSim)
            /\ ~IsNaN(r.structuralSim)
            /\ ~IsNaN(r.result)

(***************************************************************************)
(* Properties of levenshteinDistance (SpecLev).                            *)
(***************************************************************************)

\* The strings one insertion, deletion or substitution away from s, no
\* longer than MaxLen.
OneEditFrom(s) ==
    {SubSeq(s, 1, k - 1) \o SubSeq(s, k + 1, Len(s)) : k \in 1..Len(s)}
    \cup {SubSeq(s, 1, k - 1) \o <<c>> \o SubSeq(s, k + 1, Len(s)) :
             k \in 1..Len(s), c \in LevAlphabet}
    \cup (IF Len(s) < MaxLen
          THEN {SubSeq(s, 1, k) \o <<c>> \o SubSeq(s, k + 1, Len(s)) :
                   k \in 0..Len(s), c \in LevAlphabet}
          ELSE {})

\* The least number of edits after which t is among the strings reached.
\* (A shortest edit sequence can delete first and insert last, so none of
\* its strings is longer than the longer of s and t.)
RECURSIVE EditsToReach(_, _, _)
EditsToReach(reached, t, k) ==
    IF t \in reached THEN k
    ELSE EditsToReach(reached \cup UNION {OneEditFrom(s) : s \in reached}, t, k + 1)

MinimumEdits == Tabulated([p \in LevStrings \X LevStrings |-> EditsToReach({p[1]}, p[2], 0)])

\* C17: levenshteinDistance(s, t) is exactly the minimum number of
\* single-character insertions, deletions and substitutions turning s into
\* t; distance("kitten", "sitting") = 3, distance("", "") = 0,
\* distance(s, s) = 0 and distance(s, "") = length of s.
C17_LevenshteinIsMinimumEdits ==
    levPc = "done" =>
        /\ (levStr1 \in LevStrings /\ levStr2 \in LevStrings)
              => levResult = MinimumEdits[<<levStr1, levStr2>>]
        /\ (levStr1 = Kitten /\ levStr2 = Sitting) => levResult = 3
        /\ levStr1 = levStr2 => levResult = 0
        /\ levStr2 = <<>> => levResult = Len(levStr1)
        /\ levStr1 = <<>> => levResult = Len(levStr2)

\* The documented pair has been computed.
C17_Witness ==
    /\ levPc = "done"
    /\ levStr1 = Kitten
    /\ levStr2 = Sitting
    /\ levResult = 3

(***************************************************************************)
(* Properties of the difficulty distribution and balance (SpecBal).        *)
(***************************************************************************)

\* The score a list entry stands for: itself, or 0 for a stored null.
CountedScore(entry) ==
    IF balOp = "statistics"
    THEN (IF entry = <<>> THEN Zero ELSE entry[1])
    ELSE entry

\* C18: every score is counted in exactly one bucket, Easy when score <= 3,
\* Medium when 3 < score <= 6, Hard when score > 6, so the three counts sum
\* to the number of scores; getQuestionStatistics buckets the stored scores
\* by the same rule.
C18_BucketsPartitionScores ==
    (balOp # "none" /\ ~(balOp = "statistics" /\ Len(balScores) = 0)) =>
        LET score(k) == CountedScore(balScores[k])
            easy == {k \in 1..Len(balScores) : NumLe(score(k), Num(3, 1))}
            medium == {k \in 1..Len(balScores) :
                          NumGt(score(k), Num(3, 1)) /\ NumLe(score(k), Num(6, 1))}
            hard == {k \in 1..Len(balScores) : NumGt(score(k), Num(6, 1))}
        IN  /\ DOMAIN balDistribution = {"Easy (1-3)", "Medium (4-6)", "Hard (7-10)"}
            /\ balDistribution["Easy (1-3)"] = Cardinality(easy)
            /\ balDistribution["Medium (4-6)"] = Cardinality(medium)
            /\ balDistribution["Hard (7-10)"] = Cardinality(hard)
            /\ balDistribution["Easy (1-3)"] + balDistribution["Medium (4-6)"]
                  + balDistribution["Hard (7-10)"] = Len(balScores)

\* Three scores, among them the limits 3 and 6, one in each bucket.
C18_Witness ==
    /\ balOp = "distribution"
    /\ Len(balScores) = 3
    /\ \E k \in 1..3 : balScores[k] = Num(3, 1)
    /\ \E k \in 1..3 : balScores[k] = Num(6, 1)
    /\ \A level \in DOMAIN balDistribution : balDistribution[level] = 1

\* C19: isBalanced is false exactly when some bucket has
\* |count/total - targetRatio| > 0.15 (targets 0.25 / 0.50 / 0.25 unless
\* given); there is exactly one recommendation per such bucket, "Need more"
\* when the observed ratio is below the target and "Too many" otherwise,
\* and none for a bucket within tolerance.
C19_BalanceRecommendations ==
    balOp = "balance" =>
        LET total == Len(balScores)
            expected(level) ==
                IF balTarget = <<>>
                THEN (IF level = "Medium (4-6)" THEN Num(1, 2) ELSE Num(1, 4))
                ELSE balTarget[1][level]
            ratio(level) == Num(balDistribution[level], total)
            off(level) ==
                \/ NumGt(NumSub(ratio(level), expected(level)), Num(15, 100))
                \/ NumGt(NumSub(expected(level), ratio(level)), Num(15, 100))
            about(level) == {r \in 1..Len(balRecommendations) :
                                balRecommendations[r].level = level}
        IN  /\ balIsBalanced = ~(\E level \in DOMAIN balDistribution : off(level))
            /\ \A level \in DOMAIN balDistribution :
                  /\ Cardinality(about(level)) = (IF off(level) THEN 1 ELSE 0)
                  /\ \A r \in about(level) :
                        balRecommendations[r].kind =
                            (IF NumLt(ratio(level), expected(level))
                             THEN "Need more" ELSE "Too many")
            /\ \A r \in 1..Len(balRecommendations) :
                  balRecommendations[r].level \in DOMAIN balDistribution

\* The oracle calls of a run that have returned: one for every pair whose
\* import of the oracle module resolved.
ReturnedCalls(log) ==
    Cardinality({k \in 1..Len(log) : log[k].outcome.kind # "unloadable"})

\* The number of pairs i < j of n inputs.
Pairs(n) == (n * (n - 1)) \div 2

\* The oracle calls started and not yet returned.
VqInFlight == vqOracleCalls - ReturnedCalls(vqLog)

IpInFlight == ipOracleCalls - ReturnedCalls(ipLog)

\* C20 (as the code has it): while validateQuestionSet or identifyPlagiarism
\* runs over n inputs, at most one oracle call is in flight at any moment,
\* whatever n is, and the run makes at most one oracle call per pair i < j:
\* one for each pair whose import of the oracle module resolves and none for
\* the others, so at most n(n-1)/2 in total.
C20_SequentialAtMostOneCallPerPair ==
    /\ VqInFlight \in {0, 1}
    /\ IpInFlight \in {0, 1}
    /\ VqInFlight = 1 <=> (vqPc = "comparing" /\ vqPhase = "calling")
    /\ IpInFlight = 1 <=> (ipPc = "comparing" /\ ipPhase = "calling")
    /\ vqPc = "done" =>
          /\ Len(vqLog) = Pairs(Len(vqQuestions))
          /\ vqOracleCalls = ReturnedCalls(vqLog)
          /\ vqOracleCalls <= Pairs(Len(vqQuestions))
    /\ ipPc = "done" =>
          /\ Len(ipLog) = Pairs(Len(ipAnswers))
          /\ ipOracleCalls = ReturnedCalls(ipLog)
          /\ ipOracleCalls <= Pairs(Len(ipAnswers))

\* A finished run over three questions in which the oracle module could not
\* be loaded for one pair: two oracle calls for three pairs.
C20_Witness ==
    /\ vqPc = "done"
    /\ Len(vqQuestions) = 3
    /\ vqOracleCalls = 2
    /\ \E k \in 1..Len(vqLog) : vqLog[k].outcome.kind = "unloadable"

\* C20 (as stated): at most one oracle call in flight, and exactly one
\* oracle call per pair i < j, n(n-1)/2 in total.
C20_ExactlyOneCallPerPair ==
    /\ VqInFlight \in {0, 1}
    /\ IpInFlight \in {0, 1}
    /\ vqPc = "done" => vqOracleCalls = Pairs(Len(vqQuestions))
    /\ ipPc = "done" => ipOracleCalls = Pairs(Len(ipAnswers))

\* C30: in the result of validateQuestionSet the recommendations list is
\* empty if and only if isValid is true; the two duplicate-pair
\* recommendations appear exactly when duplicates is non-empty and the two
\* below-threshold recommendations exactly when avgUniqueness < 0.7.
C30_RecommendationsIffInvalid ==
    vqPc = "done" =>
        LET texts == {vqRecommendations[k].text : k \in 1..Len(vqRecommendations)}
            aboutPairs == {"Found highly similar question pairs",
                  "Consider regenerating questions with higher variation parameters"}
            aboutThreshold == {"Overall uniqueness is below threshold",
                  "Increase template variety or generation parameters"}
        IN  /\ (Len(vqRecommendations) = 0) <=> vqIsValid
            /\ IF Len(vqDuplicates) > 0 THEN aboutPairs \subseteq texts
               ELSE aboutPairs \cap texts = {}
            /\ IF NumLt(vqAvgUniqueness, Dec(7)) THEN aboutThreshold \subseteq texts
               ELSE aboutThreshold \cap texts = {}
            /\ texts \subseteq aboutPairs \cup aboutThreshold

(***************************************************************************)
(* Properties of the weighted combination (SpecCombine).                   *)
(***************************************************************************)

\* Whether call a and call b differ at most in the named sub-score, which b
\* has at least as high as a.
RaisedOnly(a, b, raised, heldOne, heldTwo) ==
    /\ a[heldOne] = b[heldOne]
    /\ a[heldTwo] = b[heldTwo]
    /\ NumLe(a[raised], b[raised])

\* C22: calculateSimilarity(a, b) equals 0.3 lexical + 0.3 structural +
\* 0.4 semantic with fixed weights, so with the other two sub-scores held
\* constant, raising the lexical or the structural sub-score never lowers the
\* returned similarity.
C22_WeightedSumIsMonotone ==
    /\ \A k \in 1..Len(cmbCalls) :
          LET l == cmbCalls[k].lexicalSim
              s == cmbCalls[k].structuralSim
              m == cmbCalls[k].semanticSim
              r == cmbCalls[k].result
          IN  IF IsNaN(l) \/ IsNaN(s) \/ IsNaN(m) THEN IsNaN(r)
              ELSE /\ r.d > 0
                   /\ r.n * (10 * l.d * s.d * m.d)
                        = r.d * (3 * l.n * s.d * m.d + 3 * s.n * l.d * m.d
                                    + 4 * m.n * l.d * s.d)
    /\ \A j \in 1..Len(cmbCalls), k \in 1..Len(cmbCalls) :
          (\/ RaisedOnly(cmbCalls[j], cmbCalls[k],
                         "lexicalSim", "structuralSim", "semanticSim")
           \/ RaisedOnly(cmbCalls[j], cmbCalls[k],
                         "structuralSim", "lexicalSim", "semanticSim"))
              => /\ ~NumLt(cmbCalls[k].result, cmbCalls[j].result)
                 /\ ~IsNaN(cmbCalls[j].result) =>
                        NumLe(cmbCalls[j].result, cmbCalls[k].result)

\* Two calls with the same structural and semantic sub-scores, the second
\* with the higher lexical sub-score and the higher result, and two calls
\* that differ in the structural sub-score only.
C22_Witness ==
    /\ cmbPc = "second"
    /\ cmbCalls[1].structuralSim = cmbCalls[2].structuralSim
    /\ cmbCalls[1].semanticSim = cmbCalls[2].semanticSim
    /\ NumLt(cmbCalls[1].lexicalSim, cmbCalls[2].lexicalSim)
    /\ NumLt(cmbCalls[1].result, cmbCalls[2].result)

(***************************************************************************)
(* Properties of generateQuestions (SpecGen, SpecGenRace).                 *)
(***************************************************************************)
\* The entries of a run's log with one of the given outcomes.
GqEntries(r, outcomes) ==
    {i \in 1..Len(gqRuns[r].log) : gqRuns[r].log[i].outcome \in outcomes}

\* The rows a run has written.
GqRowsOf(r) == {i \in 1..Len(gqStored) : gqStored[i].run = r}

\* C21: with ensureUniqueness not false, a variant whose processing met no
\* error is persisted if and only if its checkUniqueness score is at least
\* 0.7; a variant that scores below 0.7 is not written and adds exactly one
\* to rejectedDuplicates.
C21_PersistedIffAtLeastThreshold ==
    \A r \in Callers :
        gqRuns[r].options.ensureUniqueness =>
            /\ \A i \in GqEntries(r, {"persisted", "rejected"}) :
                  LET entry == gqRuns[r].log[i]
                  IN  /\ entry.outcome = "persisted"
                            <=> NumGe(entry.checked[1], REJECT_BELOW)
                      /\ entry.outcome = "rejected" => entry.saved = 0
            /\ gqRuns[r].rejectedDuplicates = Cardinality(GqEntries(r, {"rejected"}))

\* C24: for every variant that generateQuestions persists, the Difficulty
\* Analyzer was asked, with or without a targetDifficulty option, and the
\* stored difficultyScore is the value it returned.
C24_StoredDifficultyIsAnalyzed ==
    \A r \in Callers :
        \A i \in GqEntries(r, {"persisted", "persisted, then failed"}) :
            LET entry == gqRuns[r].log[i]
            IN  /\ entry.analyzed # <<>>
                /\ gqStored[entry.saved].difficultyScore = entry.analyzed[1]

\* C27: when generateQuestions returns, statistics.generated is the length
\* of generatedQuestions and the number of rows the run wrote; every variant
\* is exactly one of persisted, rejected as duplicate or failed before its
\* row was written, so generated + rejectedDuplicates is at most the number
\* of variants; both averages are 0 when generated is 0.
C27_StatisticsAccountForEveryVariant ==
    \A r \in Callers :
        gqRuns[r].pc = "done" =>
            LET run == gqRuns[r]
                statistics == run.statistics[1]
                persisted == GqEntries(r, {"persisted", "persisted, then failed"})
                rejected == GqEntries(r, {"rejected"})
                failed == GqEntries(r, {"failed"})
            IN  /\ statistics.generated = Len(run.generatedQuestionIds)
                /\ statistics.generated = Cardinality(GqRowsOf(r))
                /\ Len(run.log) = Len(run.variants)
                /\ statistics.generated = Cardinality(persisted)
                /\ statistics.rejectedDuplicates = Cardinality(rejected)
                /\ Cardinality(persisted) + Cardinality(rejected) + Cardinality(failed)
                       = Len(run.variants)
                /\ \A i \in 1..Len(run.log) :
                       (i \in persisted) <=> (run.log[i].saved # 0)
                /\ statistics.generated + statistics.rejectedDuplicates
                       <= Len(run.variants)
                /\ statistics.generated = 0 =>
                       /\ statistics.avgDifficulty = Zero
                       /\ statistics.avgUniqueness = Zero

\* A returned run of MaxVariants variants that persisted one, rejected one
\* and failed on none.
C27_Witness ==
    /\ gqRuns[1].pc = "done"
    /\ Len(gqRuns[1].variants) = MaxVariants
    /\ GqEntries(1, {"persisted"}) # {}
    /\ GqEntries(1, {"rejected"}) # {}
    /\ gqRuns[1].statistics[1].generated + gqRuns[1].statistics[1].rejectedDuplicates
           = Len(gqRuns[1].variants)

\* C28: an error inside the processing of a variant does not end the run:
\* every variant is taken in turn, whatever became of the ones before it,
\* and a question is in generatedQuestions and in the totals if and only if
\* its row was written, also when the similarity-check step failed after it.
C28_ErrorsSkipOneVariantOnly ==
    \A r \in Callers :
        LET run == gqRuns[r]
            listed == {run.generatedQuestionIds[i] : i \in 1..Len(run.generatedQuestionIds)}
            written == {gqStored[i].id : i \in GqRowsOf(r)}
        IN  /\ run.pc # "thrown" \/ run.log = <<>>
            /\ run.pc \notin {"idle", "thrown", "done"} =>
                   /\ run.k \in 1..Len(run.variants)
                   /\ Len(run.log) = run.k - 1
            /\ run.pc = "done" =>
                   /\ Len(run.log) = Len(run.variants)
                   /\ Len(run.statistics) = 1
            /\ listed = written
            /\ Len(run.generatedQuestionIds) = Cardinality(written)
            /\ run.totalDifficulty =
                   SumNumbers([i \in 1..Len(run.generatedQuestionIds) |->
                              gqStored[run.generatedQuestionIds[i]].difficultyScore])
            /\ \A i \in GqEntries(r, {"persisted, then failed"}) :
                   run.log[i].saved \in listed
            /\ \A i \in GqEntries(r, {"failed", "rejected"}) :
                   run.log[i].saved = 0

\* A run that returned although the write of one variant failed and the
\* similarity-check step of another failed after its row was written.
C28_Witness ==
    /\ gqRuns[1].pc = "done"
    /\ GqEntries(1, {"failed"}) # {}
    /\ GqEntries(1, {"persisted, then failed"}) # {}
    /\ \E i \in GqEntries(1, {"failed"}) : i < Len(gqRuns[1].log)
    /\ gqRuns[1].statistics[1].generated = 1

\* The uniqueness of one text against another under some oracle outcome.
GqUniqueAgainst(questionText, earlierText) ==
    \E outcome \in GenerationOutcomes :
        NumGe(NumSub(One, calculateSimilarity(questionText, earlierText, outcome)),
              REJECT_BELOW)

\* C25: in any interleaving of generateQuestions calls on one template with
\* ensureUniqueness enabled, every stored question has uniqueness of at
\* least 0.7 against every question of the template stored before it.
C25_NoDuplicatesUnderConcurrency ==
    \A j \in 1..Len(gqStored), k \in 1..Len(gqStored) :
        j < k => GqUniqueAgainst(gqStored[k].questionText, gqStored[j].questionText)

(***************************************************************************)
(* Properties of generateQuestionsForAssignment (SpecAssign).              *)
(***************************************************************************)
\* The student assignment records of a student and a question.
GaRecordsOf(studentId, questionId) ==
    {n \in 1..Len(gaRecords) :
        /\ gaRecords[n].studentId = studentId
        /\ gaRecords[n].questionId = questionId}

\* C29: generateQuestionsForAssignment throws before any generateQuestions
\* call if the assignment is not found or the subject has no templates.
\* When it returns, the keys of the map are the given studentIds, each list
\* has at most questionsPerStudent ids, each (student, question id) of the
\* map has exactly one record, with status "assigned", and no question id
\* is assigned to two students.
C29_AssignmentMap ==
    /\ (gaRun.pc # "idle" /\ (~gaRun.assignmentFound \/ gaRun.templates = 0)) =>
           /\ gaRun.pc \in {"assignment", "templates", "thrown"}
           /\ gaRun.calls = <<>>
           /\ gaQuestions = <<>>
           /\ gaRecords = <<>>
    /\ gaRun.pc = "returned" =>
           LET studentQuestions == gaRun.studentQuestions
           IN  /\ DOMAIN studentQuestions =
                      {gaRun.studentIds[s] : s \in 1..Len(gaRun.studentIds)}
               /\ \A studentId \in DOMAIN studentQuestions :
                      /\ Len(studentQuestions[studentId]) <= gaRun.questionsPerStudent
                      /\ \A n \in 1..Len(studentQuestions[studentId]) :
                            LET questionId == studentQuestions[studentId][n]
                            IN  /\ questionId \in 1..Len(gaQuestions)
                                /\ Cardinality(GaRecordsOf(studentId, questionId)) = 1
                                /\ \A r \in GaRecordsOf(studentId, questionId) :
                                      gaRecords[r].status = "assigned"
                                /\ \A other \in DOMAIN studentQuestions \ {studentId} :
                                      \A m \in 1..Len(studentQuestions[other]) :
                                          studentQuestions[other][m] # questionId
               /\ \A m \in 1..Len(gaRecords), n \in 1..Len(gaRecords) :
                      gaRecords[m].questionId = gaRecords[n].questionId
                          => gaRecords[m].studentId = gaRecords[n].studentId

\* The call has returned for MaxStudents students, two of them different,
\* each with questionsPerStudent = MaxPerStudent questions.
C29_Witness ==
    /\ gaRun.pc = "returned"
    /\ Len(gaRun.studentIds) = MaxStudents
    /\ DOMAIN gaRun.studentQuestions = StudentIds
    /\ gaRun.questionsPerStudent = MaxPerStudent
    /\ \A studentId \in StudentIds :
          Len(gaRun.studentQuestions[studentId]) = MaxPerStudent

=============================================================================
